---------------------------- MODULE Spec2Model ----------------------------
(***************************************************************************)
(* crossplane-plan: the per-PR work queue (pkg/workqueue), the comment     *)
(* upsert (pkg/vcs/github), the PR detectors (pkg/detector), the batch     *)
(* handler and the leader-elected run loop (pkg/watcher).                  *)
(*                                                                         *)
(* Strings that the code parses (names, label values, patterns) are        *)
(* sequences of one-character strings; everything else is a TLA+ string.   *)
(***************************************************************************)
EXTENDS Integers, Sequences, FiniteSets, TLC

\* ------------------------------------------------------------------ bounds

\* Enqueue calls per behaviour (each starts one timer).
MaxEnqueue == 3
\* The clock stops at MaxTime.
MaxTime == 5
\* The debounce handed to NewPRWorkQueue, in clock ticks.
Debounce == 2

\* XRs per cluster.
MaxXRs == 3
\* Watch events of preview XRs per behaviour of the watcher.
MaxEvents == 1
\* Comments on GitHub, over all pull requests.
MaxComments == 3
\* Periodic reconciliations per behaviour.
MaxPeriodic == 1

\* PR ids the model enqueues.
PRs == {7, 42}

\* ------------------------------------------------------------- Go map helpers

EmptyMap == [x \in {} |-> 0]

MapPut(m, k, v) == [x \in DOMAIN m \cup {k} |-> IF x = k THEN v ELSE m[x]]

MapDel(m, k) == [x \in DOMAIN m \ {k} |-> m[x]]

\* ------------------------------------------------------------------- state

VARIABLES
  now,        \* the clock (time.Now)
  pending,    \* PRWorkQueue.pending: prNumber -> prWork
  timers,     \* every time.Timer made by Enqueue, by id: its callback's position too
  procLog,    \* history: the Processor invocations, in order
  shutLog,    \* history: the Shutdown calls (what was pending, what followed)
  cluster,    \* the XRs in the cluster
  cfg,        \* the watcher's configuration: detector, ArgoCD client, applications
  swept,      \* run: how many kinds the initial reconciliation has swept
  handled,    \* history: the watcher handler that ran in the last step, with its batches
  comments,   \* GitHub: the issue comments, in the order of their creation
  calls,      \* the PostComment calls of each goroutine: what it posts, how far it is
  upserts,    \* history: the comments PostComment has created or edited, in order
  lease,      \* the Lease crossplane-plan-leader: who holds it
  ctx,        \* this replica: standby, leading with a live context, cancelled, exited
  mu,         \* PRWorkQueue.mu and each prWork.mu: who holds them, who is inside a call
  run,        \* XRWatcher.run: where it is, the kinds it discovered, their watch loops
  fcall       \* history: the last call of a function, its arguments and its results

queueVars == <<now, pending, timers, procLog, shutLog, mu>>

watcherVars == <<cluster, cfg, swept, handled>>

commentVars == <<comments, calls, upserts>>

leaderVars == <<lease, ctx, run>>

vars == <<queueVars, watcherVars, commentVars, leaderVars, fcall>>

\* No function has been called.
NoCall == [fn |-> ""]

\* No sweep of run has been made.
NoSweep == [periodic |-> FALSE, listed |-> {}, failed |-> {}, served |-> {}]

\* run has not been called: served are the kinds whose XRD is served,
\* periodic tells whether the reconciliation interval is positive.
NoRun ==
  [phase |-> "none", served |-> {}, periodic |-> FALSE, gvrs |-> <<>>, watch |-> EmptyMap,
   ticker |-> "none", sweeps |-> 0, sweep |-> NoSweep, exit |-> "none"]

\* ------------------------------------------------------------- PRWorkQueue

NilTimer == 0

\* No goroutine: the holder of a mutex that is free.
NoGoroutine == <<"", 0>>

\* The mutexes when nobody holds one and nobody is inside a call: q is the
\* holder of PRWorkQueue.mu, work[w] the holder of the mutex of the prWork w,
\* at the calls of Enqueue, PendingCount and Shutdown that are under way, by
\* goroutine, each with the statement it is at.  The actions above are the
\* queue's operations as one step each, q.mu held from entry to return; the
\* section on the mutexes below takes them apart.
NoLocks ==
  [q |-> NoGoroutine, work |-> [w \in 1..MaxEnqueue |-> NoGoroutine], at |-> EmptyMap]

\* NewPRWorkQueue: an empty table.
QueueInit ==
  /\ mu = NoLocks
  /\ now = 0
  /\ pending = EmptyMap
  /\ timers = <<>>
  /\ procLog = <<>>
  /\ shutLog = [called |-> FALSE, clean |-> FALSE, works |-> {}]

\* Stop without effect: the timer that an Enqueue replaces keeps running.
TimerStop_NoEffect(ts, t) == ts

\* time.Timer.Stop: a timer that has not expired never runs its function; one
\* that has expired (its function runs, or waits for the lock, in a goroutine of
\* its own) is not affected.
TimerStop(ts, t) ==
  IF t # NilTimer /\ ts[t].st = "armed" THEN [ts EXCEPT ![t].st = "stopped"] ELSE ts

\* PendingCount: len(q.pending).
PendingCount == Cardinality(DOMAIN pending)

\* Enqueue that starts a timer for a new entry only: for a pending PR it
\* stops the timer and resets lastEventAt.
Enqueue_NoRestart(p) ==
  /\ Len(timers) < MaxEnqueue
  /\ LET t == Len(timers) + 1
         exists == p \in DOMAIN pending
     IN IF exists
        THEN /\ timers' = TimerStop(timers, pending[p].timer)
             /\ pending' = [pending EXCEPT ![p].lastEventAt = now]
        ELSE /\ timers' = Append(timers, [pr |-> p, deadline |-> now + Debounce,
                                          st |-> "armed", work |-> 0, err |-> FALSE])
             /\ pending' = MapPut(pending, p, [prNumber |-> p, lastEventAt |-> now,
                                               timer |-> t, id |-> t])
  /\ shutLog' = [shutLog EXCEPT !.clean = FALSE]
  /\ UNCHANGED <<mu, now, procLog>>

\* Enqueue on a table that holds one entry: the new entry replaces whatever
\* was pending.
Enqueue_OneEntry(p) ==
  /\ Len(timers) < MaxEnqueue
  /\ LET t == Len(timers) + 1
         exists == p \in DOMAIN pending
         work == IF exists
                 THEN [pending[p] EXCEPT !.lastEventAt = now]
                 ELSE [prNumber |-> p, lastEventAt |-> now, timer |-> NilTimer, id |-> t]
         stopped == IF exists THEN TimerStop(timers, pending[p].timer) ELSE timers
     IN /\ timers' = Append(stopped, [pr |-> p, deadline |-> now + Debounce,
                                       st |-> "armed", work |-> 0,
                                       err |-> FALSE])
        /\ pending' = MapPut(EmptyMap, p, [work EXCEPT !.timer = t])
        /\ shutLog' = [shutLog EXCEPT !.clean = FALSE]
  /\ UNCHANGED <<mu, now, procLog>>

\* Enqueue, under q.mu from entry to return: a new prWork, or the old one with
\* its timer stopped and lastEventAt reset; then a new timer in either case.
\* The work item made by the k-th Enqueue call is work k; timer k is the timer
\* that call starts.
Enqueue(p) ==
  /\ Len(timers) < MaxEnqueue
  /\ LET t == Len(timers) + 1
         exists == p \in DOMAIN pending
         work == IF exists
                 THEN [pending[p] EXCEPT !.lastEventAt = now]
                 ELSE [prNumber |-> p, lastEventAt |-> now, timer |-> NilTimer, id |-> t]
         stopped == IF exists THEN TimerStop(timers, pending[p].timer) ELSE timers
     IN /\ timers' = Append(stopped, [pr |-> p, deadline |-> now + Debounce,
                                       st |-> "armed", work |-> 0,
                                       err |-> FALSE])
        /\ pending' = MapPut(pending, p, [work EXCEPT !.timer = t])
        /\ shutLog' = [shutLog EXCEPT !.clean = FALSE]
  /\ UNCHANGED <<mu, now, procLog>>

\* The runtime, once the timer's duration has passed: the function of
\* time.AfterFunc starts in its own goroutine.
TimerFire(t) ==
  /\ timers[t].st = "armed"
  /\ now >= timers[t].deadline
  /\ timers' = [timers EXCEPT ![t].st = "fired"]
  /\ UNCHANGED <<mu, now, pending, procLog, shutLog>>

\* processPR that leaves the entry in the table.
ProcessPRTake_NoDelete(t) ==
  /\ timers[t].st = "fired"
  /\ LET p == timers[t].pr
     IN IF p \notin DOMAIN pending
        THEN timers' = [timers EXCEPT ![t].st = "done"]
        ELSE timers' = [timers EXCEPT ![t].st = "taken", ![t].work = pending[p].id]
  /\ UNCHANGED <<mu, now, pending, procLog, shutLog>>

\* processPR, first half, under q.mu: return when the PR is not pending, else
\* take the entry out of the table.
ProcessPRTake(t) ==
  /\ timers[t].st = "fired"
  /\ LET p == timers[t].pr
     IN IF p \notin DOMAIN pending
        THEN /\ timers' = [timers EXCEPT ![t].st = "done"]
             /\ UNCHANGED pending
        ELSE /\ timers' = [timers EXCEPT ![t].st = "taken", ![t].work = pending[p].id]
             /\ pending' = MapDel(pending, p)
  /\ UNCHANGED <<mu, now, procLog, shutLog>>

\* processPR, second half, no lock held: q.processor.ProcessPR(ctx, prNumber).
ProcessPRCall(t) ==
  /\ timers[t].st = "taken"
  /\ timers' = [timers EXCEPT ![t].st = "processing"]
  /\ procLog' = Append(procLog, [pr |-> timers[t].pr, work |-> timers[t].work,
                                 timer |-> t, at |-> now])
  /\ UNCHANGED <<mu, now, pending, shutLog>>

\* processPR that puts a PR whose Processor failed back into the table, with
\* a new timer.
ProcessorReturn_Requeue(t, err) ==
  /\ timers[t].st = "processing"
  /\ IF err /\ Len(timers) < MaxEnqueue /\ timers[t].pr \notin DOMAIN pending
     THEN /\ timers' = Append([timers EXCEPT ![t].st = "done", ![t].err = err],
                              [pr |-> timers[t].pr, deadline |-> now + Debounce,
                               st |-> "armed", work |-> 0, err |-> FALSE])
          /\ pending' = MapPut(pending, timers[t].pr,
                               [prNumber |-> timers[t].pr, lastEventAt |-> now,
                                timer |-> Len(timers) + 1, id |-> Len(timers) + 1])
     ELSE /\ timers' = [timers EXCEPT ![t].st = "done", ![t].err = err]
          /\ UNCHANGED pending
  /\ UNCHANGED <<mu, now, procLog, shutLog>>

\* The Processor returns, with an error or without: processPR logs an error
\* (err records that it did) and returns either way.
ProcessorReturn(t, err) ==
  /\ timers[t].st = "processing"
  /\ timers' = [timers EXCEPT ![t].st = "done", ![t].err = err]
  /\ UNCHANGED <<mu, now, pending, procLog, shutLog>>

RECURSIVE StopAll(_, _)
\* Shutdown's loop over q.pending: Stop on every entry's timer.
StopAll(ts, ps) ==
  IF ps = {} THEN ts
  ELSE LET p == CHOOSE x \in ps : TRUE
       IN StopAll(TimerStop(ts, pending[p].timer), ps \ {p})

\* Shutdown that stops the timers and keeps the table.
Shutdown_KeepsTable ==
  /\ timers' = StopAll(timers, DOMAIN pending)
  /\ shutLog' = [called |-> TRUE, clean |-> TRUE,
                 works |-> shutLog.works \cup
                   {[id |-> pending[p].id, timer |-> pending[p].timer,
                     st |-> timers[pending[p].timer].st] : p \in DOMAIN pending}]
  /\ UNCHANGED <<mu, now, pending, procLog>>

\* Shutdown, under q.mu: stop every pending timer, then a fresh empty table.
\* shutLog keeps the work items that were pending, each with its timer and
\* whether that timer had expired already.
Shutdown ==
  /\ timers' = StopAll(timers, DOMAIN pending)
  /\ pending' = EmptyMap
  /\ shutLog' = [called |-> TRUE, clean |-> TRUE,
                 works |-> shutLog.works \cup
                   {[id |-> pending[p].id, timer |-> pending[p].timer,
                     st |-> timers[pending[p].timer].st] : p \in DOMAIN pending}]
  /\ UNCHANGED <<mu, now, procLog>>

\* Time passes.
Tick ==
  /\ now < MaxTime
  /\ now' = now + 1
  /\ UNCHANGED <<mu, pending, timers, procLog, shutLog>>

\* ----------------------------------------------------------------- strings

Digits == {"0", "1", "2", "3", "4", "5", "6", "7", "8", "9"}

DigitVal(c) ==
  CASE c = "0" -> 0 [] c = "1" -> 1 [] c = "2" -> 2 [] c = "3" -> 3 [] c = "4" -> 4
    [] c = "5" -> 5 [] c = "6" -> 6 [] c = "7" -> 7 [] c = "8" -> 8 [] c = "9" -> 9

RECURSIVE DigitsVal(_)
DigitsVal(s) ==
  IF s = <<>> THEN 0
  ELSE 10 * DigitsVal(SubSeq(s, 1, Len(s) - 1)) + DigitVal(s[Len(s)])

\* strconv.Atoi of an unsigned text: digits and nothing else; the values of
\* the model are far from the int range.
ParseUint(body) ==
  IF body = <<>> \/ \E i \in DOMAIN body : body[i] \notin Digits
  THEN [ok |-> FALSE, val |-> 0]
  ELSE [ok |-> TRUE, val |-> DigitsVal(body)]

Negated(n) == [n EXCEPT !.val = 0 - @]

\* strconv.Atoi: an optional sign, then the unsigned text.
Atoi(s) ==
  IF s = <<>> \/ s[1] \notin {"+", "-"} THEN ParseUint(s)
  ELSE IF s[1] = "-" THEN Negated(ParseUint(Tail(s)))
  ELSE ParseUint(Tail(s))

\* "prNumber, err := strconv.Atoi(..); if err != nil { return 0 }; return
\* prNumber" of the detectors.
OrZero(n) == IF n.ok THEN n.val ELSE 0

\* strings.HasPrefix.
HasPrefix(s, prefix) ==
  Len(s) >= Len(prefix) /\ SubSeq(s, 1, Len(prefix)) = prefix

\* The length of the run of digits of s that starts at j.
RECURSIVE DigitRun(_, _)
DigitRun(s, j) ==
  IF j <= Len(s) /\ s[j] \in Digits THEN 1 + DigitRun(s, j + 1) ELSE 0

\* ------------------------------------------------------------- NameDetector

NumberToken == <<"{", "n", "u", "m", "b", "e", "r", "}">>

\* The two elements the detector's regex has besides literal characters.
ReNumber == "(\\d+)"
ReAny == ".*"

\* NewNameDetector's two ReplaceAllString calls: {number} becomes the capture
\* group (\d+), * becomes .* (no group), every other character stands for
\* itself (the patterns of the model hold letters, digits and '-').
RECURSIVE CompilePattern(_)
CompilePattern(pat) ==
  IF pat = <<>> THEN <<>>
  ELSE IF HasPrefix(pat, NumberToken)
       THEN <<ReNumber>> \o CompilePattern(SubSeq(pat, Len(NumberToken) + 1, Len(pat)))
  ELSE IF pat[1] = "*" THEN <<ReAny>> \o CompilePattern(Tail(pat))
  ELSE <<pat[1]>> \o CompilePattern(Tail(pat))

\* regexp matching of "^" + re + "$": element i of re against s from j on,
\* greedy, backtracking; groups are the texts of the capture groups.
RECURSIVE MatchFrom(_, _, _, _), MatchTake(_, _, _, _, _), MatchTaken(_, _, _, _, _, _)
MatchFrom(re, i, s, j) ==
  IF i > Len(re) THEN [ok |-> j = Len(s) + 1, groups |-> <<>>]
  ELSE IF re[i] = ReNumber THEN MatchTake(re, i, s, j, DigitRun(s, j))
  ELSE IF re[i] = ReAny THEN MatchTake(re, i, s, j, Len(s) - j + 1)
  ELSE IF j <= Len(s) /\ s[j] = re[i] THEN MatchFrom(re, i + 1, s, j + 1)
  ELSE [ok |-> FALSE, groups |-> <<>>]

\* The match of element i that takes k characters, given the match r of the
\* rest after them; fewer characters when the rest does not match.
MatchTaken(re, i, s, j, k, r) ==
  IF r.ok
  THEN [ok |-> TRUE,
        groups |-> IF re[i] = ReNumber
                   THEN <<SubSeq(s, j, j + k - 1)>> \o r.groups
                   ELSE r.groups]
  ELSE MatchTake(re, i, s, j, k - 1)

\* Element i takes k characters, or fewer.
MatchTake(re, i, s, j, k) ==
  IF k < (IF re[i] = ReNumber THEN 1 ELSE 0) THEN [ok |-> FALSE, groups |-> <<>>]
  ELSE MatchTaken(re, i, s, j, k, MatchFrom(re, i + 1, s, j + k))

\* The submatches of the match r of s: nil without a match, else the whole
\* match followed by the groups' texts.
Submatches(r, s) == IF r.ok THEN <<s>> \o r.groups ELSE <<>>

\* Regexp.FindStringSubmatch.
FindStringSubmatch(re, s) == Submatches(MatchFrom(re, 1, s, 1), s)

\* The body of NameDetector.DetectPR after the match (Go's matches[1] is
\* element 2 here).
MatchedPR(matches) ==
  IF Len(matches) < 2 THEN 0 ELSE OrZero(Atoi(matches[2]))

\* NameDetector.DetectPR.
NameDetectPR(re, xr) == MatchedPR(FindStringSubmatch(re, xr.name))

\* The body of NameDetector.GetBaseName after the match (Go's matches[2] is
\* element 3 here).
MatchedBaseName(matches, name) ==
  IF Len(matches) < 2 THEN name
  ELSE IF Len(matches) >= 3 THEN matches[3]
  ELSE name

\* NameDetector.GetBaseName.
NameGetBaseName(re, xr) == MatchedBaseName(FindStringSubmatch(re, xr.name), xr.name)

\* --------------------------------------- LabelDetector, AnnotationDetector

DefaultLabelKey == "millstone.tech/pr-number"
DefaultAnnotationKey == "millstone.tech/preview-pr"

\* DetectPR that reports a missing key as -1.
MapDetectPR_AbsentIsError(m, key) ==
  IF key \notin DOMAIN m THEN 0 - 1 ELSE OrZero(Atoi(m[key]))

\* DetectPR of the label and the annotation detector on the XR's map m (a nil
\* map reads as an empty one).
MapDetectPR(m, key) ==
  IF key \notin DOMAIN m THEN 0 ELSE OrZero(Atoi(m[key]))

\* ------------------------------------------------------- detector.Detector

\* --name-pattern, as main hands it to NewNameDetector.
DefaultNamePattern == <<"p", "r", "-">> \o NumberToken \o <<"-", "*">>

Strategies == {"name", "label", "annotation"}

\* Detector.DetectPR of the detector createDetector makes for the strategy.
DetectPR(strat, xr) ==
  CASE strat = "name" -> NameDetectPR(CompilePattern(DefaultNamePattern), xr)
    [] strat = "label" -> MapDetectPR(xr.labels, DefaultLabelKey)
    [] strat = "annotation" -> MapDetectPR(xr.annotations, DefaultAnnotationKey)

\* Detector.GetBaseName.
GetBaseName(strat, xr) ==
  CASE strat = "name" -> NameGetBaseName(CompilePattern(DefaultNamePattern), xr)
    [] strat = "label" -> xr.name
    [] strat = "annotation" -> xr.name

\* ----------------------------------------------------- the cluster's XRs

ArgoCDInstanceLabel == "argocd.argoproj.io/instance"

\* An XR as the dynamic client returns it: what the watcher reads of it.
MkXR(kind, namespace, name, labels, annotations) ==
  [kind |-> kind, namespace |-> namespace, name |-> name,
   labels |-> labels, annotations |-> annotations]

Name_pr42a == <<"p", "r", "-", "4", "2", "-", "a">>
Name_pr42b == <<"p", "r", "-", "4", "2", "-", "b">>
Name_pr7c == <<"p", "r", "-", "7", "-", "c">>
Name_a == <<"a">>
Name_b == <<"b">>
Name_c == <<"c">>
Name_d == <<"d">>
App_pr42shop == <<"p", "r", "-", "4", "2", "-", "s", "h", "o", "p">>
App_shop == <<"s", "h", "o", "p">>

\* The composite kinds of the cluster, in the order discovery returns them.
Kinds == <<"XDB", "XCache">>

\* An XR whose annotation holds a negative number (a label cannot: the API
\* server admits no label value that starts with a sign).
XR_Minus5 == MkXR("XDB", "", Name_d, EmptyMap, (DefaultAnnotationKey :> <<"-", "5">>))

\* A preview of PR 42 of kind XCache that is named like the production XDB a
\* (with the label or annotation strategy a preview's name is free), and a
\* production XCache of that name: no cluster holds both.
XR_PreviewCacheA ==
  MkXR("XCache", "", Name_a, (DefaultLabelKey :> <<"4", "2">>),
       (DefaultAnnotationKey :> <<"4", "2">>))

XR_CacheA == MkXR("XCache", "", Name_a, EmptyMap, EmptyMap)

\* Every XR the model's clusters may hold, in the order a list returns them.
\* Previews carry the PR number in the name, the label and the annotation, so
\* each detection strategy sees the same previews.
XRUniverse == <<
  MkXR("XDB", "", Name_pr42a,
       (DefaultLabelKey :> <<"4", "2">>) @@ (ArgoCDInstanceLabel :> App_pr42shop),
       (DefaultAnnotationKey :> <<"4", "2">>)),
  MkXR("XDB", "", Name_a, EmptyMap, EmptyMap),
  MkXR("XDB", "", Name_b, (ArgoCDInstanceLabel :> App_shop), EmptyMap),
  MkXR("XCache", "", Name_pr42b,
       (DefaultLabelKey :> <<"4", "2">>) @@ (ArgoCDInstanceLabel :> App_pr42shop),
       (DefaultAnnotationKey :> <<"4", "2">>)),
  MkXR("XCache", "", Name_c, (ArgoCDInstanceLabel :> App_shop), EmptyMap),
  MkXR("XCache", "", Name_pr7c,
       (DefaultLabelKey :> <<"7">>), (DefaultAnnotationKey :> <<"7">>)),
  XR_Minus5,
  XR_PreviewCacheA,
  XR_CacheA >>

AllXRs == {XRUniverse[i] : i \in DOMAIN XRUniverse}

\* w.detector on the cluster's XRs: the detector's answers for every XR of the
\* model, by strategy.
detector ==
  [strat \in Strategies |->
     [xr \in AllXRs |-> [prNumber |-> DetectPR(strat, xr),
                         baseName |-> GetBaseName(strat, xr)]]]

\* w.detector.DetectPR(xr)
w_DetectPR(strat, xr) == detector[strat][xr].prNumber

\* w.detector.GetBaseName(xr)
w_GetBaseName(strat, xr) == detector[strat][xr].baseName

\* The elements of the sequence s that are in keep, in order.
RECURSIVE SeqFilter(_, _)
SeqFilter(s, keep) ==
  IF s = <<>> THEN <<>>
  ELSE (IF Head(s) \in keep THEN <<Head(s)>> ELSE <<>>) \o SeqFilter(Tail(s), keep)

SeqSet(s) == {s[i] : i \in DOMAIN s}

\* dynamicClient.Resource(gvr).List on the cluster cl: list.Items.
ListKind(cl, kind) == SeqFilter(XRUniverse, {x \in cl : x.kind = kind})

\* ------------------------------------------------------------ pkg/argocd

\* The prefix NewClient is given.
PRPrefix == <<"p", "r", "-">>

\* Client.GetProductionAppName with prefix "pr-" and no suffix: strips
\* ^pr-\d+[-_].
GetProductionAppName(app) ==
  LET d == DigitRun(app, Len(PRPrefix) + 1)
      end == Len(PRPrefix) + d + 1
  IN IF HasPrefix(app, PRPrefix) /\ d >= 1 /\ end <= Len(app) /\ app[end] \in {"-", "_"}
     THEN SubSeq(app, end + 1, Len(app))
     ELSE app

\* ResourceInfo, and its Key (the five fields identify it).
MkResource(kind, namespace, name) ==
  [group |-> "example.org", version |-> "v1", kind |-> kind,
   namespace |-> namespace, name |-> name]

\* ResourceInfo.Key: "%s/%s/%s/%s/%s" of group, version, kind, namespace, name.
ResourceKey(ri) ==
  <<ri.group, "/", ri.version, "/", ri.kind, "/", ri.namespace, "/">> \o ri.name

\* compareResources with every resource of the PR taken as a modification.
compareResources_AllModified(prResources, prodResources) ==
  LET prKeys == {ResourceKey(r) : r \in prResources}
      prodKeys == {ResourceKey(r) : r \in prodResources}
  IN [Additions |-> {r \in prResources : ResourceKey(r) \notin prodKeys},
      Modifications |-> prResources,
      Deletions |-> {r \in prodResources : ResourceKey(r) \notin prKeys}]

\* Client.compareResources on the two applications' resources.
compareResources(prResources, prodResources) ==
  LET prKeys == {ResourceKey(r) : r \in prResources}
      prodKeys == {ResourceKey(r) : r \in prodResources}
  IN [Additions |-> {r \in prResources : ResourceKey(r) \notin prodKeys},
      Modifications |-> {r \in prResources : ResourceKey(r) \in prodKeys},
      Deletions |-> {r \in prodResources : ResourceKey(r) \notin prKeys}]

\* Client.GetAppDiff on the applications apps (name -> status.resources): an
\* error when the PR application cannot be read, only additions when the
\* production application cannot, else the comparison.
GetAppDiff(apps, prApp, prodApp, getFails) ==
  IF getFails \/ prApp \notin DOMAIN apps THEN [err |-> TRUE, diff |-> EmptyMap]
  ELSE IF prodApp \notin DOMAIN apps
       THEN [err |-> FALSE,
             diff |-> [Additions |-> apps[prApp], Modifications |-> {}, Deletions |-> {}]]
  ELSE [err |-> FALSE, diff |-> compareResources(apps[prApp], apps[prodApp])]

\* The resources compareResources is called with: those of its test, and
\* one that differs from another in the namespace only.
ComparedResources ==
  {[group |-> "apps", version |-> "v1", kind |-> "Deployment", namespace |-> "default",
    name |-> <<"p", "r">>],
   [group |-> "apps", version |-> "v1", kind |-> "Deployment", namespace |-> "default",
    name |-> <<"p", "r", "o", "d">>],
   [group |-> "", version |-> "v1", kind |-> "Service", namespace |-> "default",
    name |-> <<"p", "r">>],
   [group |-> "", version |-> "v1", kind |-> "Service", namespace |-> "other",
    name |-> <<"p", "r">>],
   [group |-> "", version |-> "v1", kind |-> "ConfigMap", namespace |-> "",
    name |-> <<"p", "r">>]}

\* A call of compareResources on the resources at hand.
CallCompareResources ==
  /\ fcall.fn = "input"
  /\ fcall' = [fn |-> "compareResources", pr |-> fcall.pr, prod |-> fcall.prod,
               out |-> compareResources(fcall.pr, fcall.prod)]

\* --------------------------------------------------- the batch handler

NilXR == MkXR("", "", <<>>, EmptyMap, EmptyMap)

NilResource == MkResource("", "", <<>>)

DeletedPrefix == <<"D", "E", "L", "E", "T", "E", "D", "-">>

\* fmt.Sprintf("DELETED-%s", name)
DeletionKey(name) == DeletedPrefix \o name

IsDeletionKey(key) == HasPrefix(key, DeletedPrefix)

\* differ.DiffResult as the batch handler fills and reads it.
MkDiffResult(xr, hasChanges, summary, resource) ==
  [XR |-> xr, HasChanges |-> hasChanges, Summary |-> summary, Resource |-> resource]

\* XRWatcher.DiscoverScope: the instance label of the XR names the PR
\* application; no label is an error.
DiscoverScope(xr) ==
  IF ArgoCDInstanceLabel \notin DOMAIN xr.labels THEN [err |-> TRUE, PRAppName |-> <<>>, ProdAppName |-> <<>>]
  ELSE [err |-> FALSE, PRAppName |-> xr.labels[ArgoCDInstanceLabel],
        ProdAppName |-> GetProductionAppName(xr.labels[ArgoCDInstanceLabel])]

\* The copy handed to the differ: the preview renamed to its base name.
TransformForDiff(strat, xr) == [xr EXCEPT !.name = w_GetBaseName(strat, xr)]

RECURSIVE DiffLoop(_, _, _, _, _), DiffLoop_EndsAtFailure(_, _, _, _, _)

\* The loop of step 2 that ends at the first diff that fails.
DiffLoop_EndsAtFailure(strat, xrs, diffFail, unchanged, results) ==
  IF xrs = <<>> \/ Head(xrs) \in diffFail THEN results
  ELSE DiffLoop_EndsAtFailure(strat, Tail(xrs), diffFail, unchanged,
         MapPut(results, Head(xrs).name,
                MkDiffResult(TransformForDiff(strat, Head(xrs)),
                             Head(xrs) \notin unchanged, "diff", NilResource)))

\* Step 2 of handlePRBatch: one entry per XR whose diff succeeds, keyed by
\* the XR's own name; diffFail are the XRs whose CalculateDiff fails,
\* unchanged the XRs for which the engine prints nothing.
DiffLoop(strat, xrs, diffFail, unchanged, results) ==
  IF xrs = <<>> THEN results
  ELSE LET xr == Head(xrs)
           diff == MkDiffResult(TransformForDiff(strat, xr), xr \notin unchanged,
                                "diff", NilResource)
       IN DiffLoop(strat, Tail(xrs), diffFail, unchanged,
                   IF xr \in diffFail THEN results ELSE MapPut(results, xr.name, diff))

\* The inner loop of detectDeletions over one list.
RECURSIVE DeletionLoop(_, _, _, _, _)
DeletionLoop(strat, items, prBaseNames, prGVKs, results) ==
  IF items = <<>> THEN results
  ELSE LET prodXR == Head(items)
           skip == \/ w_DetectPR(strat, prodXR) # 0
                   \/ prodXR.kind \notin prGVKs
                   \/ prodXR.name \in prBaseNames
           deletionDiff == MkDiffResult(prodXR, TRUE,
                                        "Resource will be **DELETED**", NilResource)
       IN DeletionLoop(strat, Tail(items), prBaseNames, prGVKs,
                       IF skip THEN results
                       ELSE MapPut(results, DeletionKey(prodXR.name), deletionDiff))

\* The loop of detectDeletions over the discovered kinds; a failed list skips
\* the kind.
RECURSIVE DeletionKinds(_, _, _, _, _, _, _)
DeletionKinds(strat, cl, kinds, listFails, prBaseNames, prGVKs, results) ==
  IF kinds = <<>> THEN results
  ELSE DeletionKinds(strat, cl, Tail(kinds), listFails, prBaseNames, prGVKs,
         IF Head(kinds) \in listFails THEN results
         ELSE DeletionLoop(strat, ListKind(cl, Head(kinds)), prBaseNames, prGVKs, results))

\* detectDeletions that looks at the production XRs of every kind.
detectDeletions_EveryKind(strat, cl, prResources, results, env) ==
  LET prBaseNames == {w_GetBaseName(strat, x) : x \in SeqSet(prResources)}
  IN IF prBaseNames = {} \/ env.discoverFails THEN results
     ELSE DeletionKinds(strat, cl, Kinds, env.listFails, prBaseNames, SeqSet(Kinds), results)

\* XRWatcher.detectDeletions: the results map afterwards.
detectDeletions(strat, cl, prResources, results, env) ==
  LET prBaseNames == {w_GetBaseName(strat, x) : x \in SeqSet(prResources)}
      prGVKs == {x.kind : x \in SeqSet(prResources)}
  IN IF prBaseNames = {} \/ env.discoverFails THEN results
     ELSE DeletionKinds(strat, cl, Kinds, env.listFails, prBaseNames, prGVKs, results)

\* A set as a slice, in one of the orders a range over a Go map can produce
\* (the keys that the loops below write are distinct, so the order does not
\* show in their result).
RECURSIVE SetToSeq(_)
SetToSeq(S) ==
  IF S = {} THEN <<>>
  ELSE LET x == CHOOSE y \in S : TRUE IN <<x>> \o SetToSeq(S \ {x})

\* The loop over appDiff.Deletions: one entry per deletion, keyed by the
\* resource's name alone.
RECURSIVE ArgoDeletionLoop(_, _)
ArgoDeletionLoop(deletions, results) ==
  IF deletions = <<>> THEN results
  ELSE ArgoDeletionLoop(Tail(deletions),
         MapPut(results, DeletionKey(Head(deletions).name),
                MkDiffResult(NilXR, TRUE, "will be **DELETED** (ArgoCD)", Head(deletions))))

\* Resources that are no XRs (bare resources) of each application.
BareResources(app) ==
  IF app = App_shop THEN {MkResource("ConfigMap", "shop", <<"s", "e", "t">>)} ELSE {}

\* status.resources of the application app on the cluster cl.
AppResources(cl, app) ==
  {MkResource(x.kind, x.namespace, x.name) :
     x \in {y \in cl : ArgoCDInstanceLabel \in DOMAIN y.labels
                        /\ y.labels[ArgoCDInstanceLabel] = app}}
  \cup BareResources(app)

\* The applications that exist, with their resources.
Applications(cl, names) == [app \in names |-> AppResources(cl, app)]

NilAppDiff == [Additions |-> {}, Modifications |-> {}, Deletions |-> {}]

\* What a comment shows of an entry of the aggregation map: the resource's
\* kind and name, whether it changes, the summary.
Shown(e) ==
  [kind |-> IF e.Resource = NilResource THEN e.XR.kind ELSE e.Resource.kind,
   name |-> IF e.Resource = NilResource THEN e.XR.name ELSE e.Resource.name,
   HasChanges |-> e.HasChanges, Summary |-> e.Summary]

\* The formatter's bodies, as the one piece of text that is determined by
\* what they show of their arguments.
FormatDiff(xr, diff) ==
  <<[template |-> "single", kind |-> xr.kind, name |-> xr.name, diff |-> Shown(diff)]>>

FormatMultipleDiffs(results, hasArgo, argocdDiff) ==
  <<[template |-> "multi", results |-> [k \in DOMAIN results |-> Shown(results[k])],
     argocd |-> hasArgo]>>

\* A run without failures.
NoFailure ==
  [diffFail |-> {}, unchanged |-> {}, discoverFails |-> FALSE, listFails |-> {},
   appFails |-> FALSE]

NoBatch ==
  [ran |-> FALSE, path |-> "", prNumber |-> 0, xrs |-> <<>>, results |-> EmptyMap,
   gitops |-> FALSE, argocdDiff |-> NilAppDiff, listed |-> {}, template |-> "none",
   appErr |-> FALSE, diffFail |-> {}]

\* Step 3 with the label-free detection run after the ArgoCD deletions too.
AggregateDeletions_BothModes(w, cl, xrs, diffed, gitops, deletions, env) ==
  IF gitops THEN detectDeletions(w.strategy, cl, xrs, ArgoDeletionLoop(deletions, diffed), env)
  ELSE detectDeletions(w.strategy, cl, xrs, diffed, env)

\* Step 3 of handlePRBatch: the deletions of the application diff when there
\* is one, else what detectDeletions finds; its error is logged.
AggregateDeletions(w, cl, xrs, diffed, gitops, deletions, env) ==
  IF gitops THEN ArgoDeletionLoop(deletions, diffed)
  ELSE detectDeletions(w.strategy, cl, xrs, diffed, env)

\* The choice that takes the single-XR template for every map of one entry.
ChooseTemplate_OneEntry(n, hasArgoDiff) ==
  IF n = 0 THEN "none" ELSE IF n = 1 THEN "single" ELSE "multi"

\* The choice of the template: none for an empty map (nothing to post), the
\* single-XR one for len(results) == 1 && argocdDiff == nil, else the
\* multi-XR one.
ChooseTemplate(n, hasArgoDiff) ==
  IF n = 0 THEN "none" ELSE IF n = 1 /\ ~hasArgoDiff THEN "single" ELSE "multi"

\* XRWatcher.handlePRBatch up to the choice of the template.  w is the
\* watcher's configuration, cl the cluster, env the failures of this run;
\* listed are the kinds that detectDeletions has listed.
handlePRBatch(w, cl, path, prNumber, xrs, env) ==
  IF xrs = <<>> THEN NoBatch
  ELSE
  LET found == IF w.argocd THEN DiscoverScope(xrs[1])
               ELSE [err |-> TRUE, PRAppName |-> <<>>, ProdAppName |-> <<>>]
      hasScope == w.argocd /\ ~found.err
      diffed == DiffLoop(w.strategy, xrs, env.diffFail, env.unchanged, EmptyMap)
      app == IF hasScope
             THEN GetAppDiff(Applications(cl, w.apps), found.PRAppName,
                             found.ProdAppName, env.appFails)
             ELSE [err |-> TRUE, diff |-> NilAppDiff]
      gitops == hasScope /\ ~app.err
      deletions == SetToSeq(app.diff.Deletions)
      results == AggregateDeletions(w, cl, xrs, diffed, gitops, deletions, env)
      n == Cardinality(DOMAIN results)
  IN [ran |-> TRUE, path |-> path, prNumber |-> prNumber, xrs |-> xrs,
      results |-> results, gitops |-> gitops,
      argocdDiff |-> IF gitops THEN app.diff ELSE NilAppDiff,
      listed |-> IF gitops \/ env.discoverFails THEN {}
                 ELSE SeqSet(Kinds) \ env.listFails,
      template |-> ChooseTemplate(n, gitops),
      appErr |-> hasScope /\ app.err,
      diffFail |-> env.diffFail \cap SeqSet(xrs)]

\* The comment handlePRBatch formats for the batch b it has aggregated.
BatchComment(b) ==
  IF b.template = "single"
  THEN FormatDiff(b.xrs[1], b.results[CHOOSE k \in DOMAIN b.results : TRUE])
  ELSE FormatMultipleDiffs(b.results, b.gitops, b.argocdDiff)

\* XRWatcher.findAllPRResources: the XRs of the PR over all kinds, in list
\* order; a failed list skips the kind.
RECURSIVE findAllPRResources(_, _, _, _, _)
findAllPRResources(strat, cl, kinds, listFails, prNumber) ==
  IF kinds = <<>> THEN <<>>
  ELSE (IF Head(kinds) \in listFails THEN <<>>
        ELSE SeqFilter(ListKind(cl, Head(kinds)),
                       {x \in cl : w_DetectPR(strat, x) = prNumber}))
       \o findAllPRResources(strat, cl, Tail(kinds), listFails, prNumber)

\* ------------------------------------------------------- pkg/vcs/github

CommentIdentifier == "<!-- crossplane-plan-comment -->"

\* commentBody := CommentIdentifier + "\n\n" + body; a body is a sequence of
\* pieces of text.
CommentBody(body) == <<CommentIdentifier, "\n", "\n">> \o body

\* strings.HasPrefix(*comment.Body, CommentIdentifier)
IsPlanComment(comment) == HasPrefix(comment.body, <<CommentIdentifier>>)

\* A nil comment id.
NilID == 0

\* findExistingComment that never finds the comment.
findExistingComment_None(cs, prNumber) == NilID

\* Client.findExistingComment on the comments cs: the id of the first comment
\* of the PR whose body starts with the identifier, over all pages; nil when
\* there is none.  A comment's id is its place in cs.
findExistingComment(cs, prNumber) ==
  LET ids == {i \in DOMAIN cs : cs[i].pr = prNumber /\ IsPlanComment(cs[i])}
  IN IF ids = {} THEN NilID ELSE CHOOSE i \in ids : \A j \in ids : i <= j

\* The goroutines that call PostComment: run with the initial reconciliation,
\* the goroutine of the periodic reconciliation, the callback of each timer,
\* and a client of the package.
RunGoroutine == <<"run", 0>>

PeriodicGoroutine == <<"periodic", 0>>

TimerGoroutine(t) == <<"timer", t>>

ClientGoroutine == <<"client", 0>>

\* The goroutine c is inside PostComment.
Busy(c) == c \in DOMAIN calls /\ calls[c].phase # "done"

\* A goroutine's PostComment calls: posts are the comments it has yet to post,
\* one PostComment call each, the first being under way.
NewCall(posts) == [posts |-> posts, phase |-> "find", found |-> NilID]

\* PostComment has returned: the goroutine's next call, or none.
NextPost(call) ==
  IF Len(call.posts) > 1 THEN NewCall(Tail(call.posts))
  ELSE [posts |-> <<>>, phase |-> "done", found |-> NilID]

\* The history of the PR's upserts after one more.
Upserted(prNumber, id, op, body) ==
  LET had == prNumber \in DOMAIN upserts
  IN MapPut(upserts, prNumber,
       [ids |-> (IF had THEN upserts[prNumber].ids ELSE {}) \cup {id},
        creates |-> (IF had THEN upserts[prNumber].creates ELSE 0)
                      + (IF op = "create" THEN 1 ELSE 0),
        op |-> op, id |-> id, body |-> body,
        repeat |-> had /\ upserts[prNumber].body = body])

\* PostComment, first half: findExistingComment; an error ends the call.
FindExistingComment(c, err) ==
  /\ c \in DOMAIN calls
  /\ calls[c].phase = "find"
  /\ calls' = [calls EXCEPT ![c] =
                 IF err THEN NextPost(@)
                 ELSE [@ EXCEPT !.phase = "write",
                                !.found = findExistingComment(comments,
                                                              Head(calls[c].posts).pr)]]
  /\ UNCHANGED <<comments, upserts>>

\* PostComment, second half: EditComment of the comment found, CreateComment
\* when none was found; an error of the API changes nothing.
WriteComment(c, err) ==
  /\ c \in DOMAIN calls
  /\ calls[c].phase = "write"
  /\ LET post == Head(calls[c].posts)
         id == calls[c].found
     IN IF err THEN UNCHANGED <<comments, upserts>>
        ELSE IF id # NilID
        THEN /\ comments' = [comments EXCEPT ![id].body = CommentBody(post.body)]
             /\ upserts' = Upserted(post.pr, id, "edit", post.body)
        ELSE /\ comments' = Append(comments, [pr |-> post.pr,
                                              body |-> CommentBody(post.body)])
             /\ upserts' = Upserted(post.pr, Len(comments) + 1, "create", post.body)
  /\ calls' = [calls EXCEPT ![c] = NextPost(@)]

\* The comments to post for the batches of one handler run: one for each
\* batch that has results.
RECURSIVE BatchPosts(_)
BatchPosts(bs) ==
  IF bs = <<>> THEN <<>>
  ELSE (IF Head(bs).template = "none" THEN <<>>
        ELSE <<[pr |-> Head(bs).prNumber, body |-> BatchComment(Head(bs))]>>)
       \o BatchPosts(Tail(bs))

\* Step 5 of handlePRBatch for the batches of one handler run, by the
\* goroutine c: PostComment for each, unless the watcher has no VCS client
\* (dry run).
StartPosts(c, batches) ==
  /\ calls' = IF cfg.vcs /\ BatchPosts(batches) # <<>>
              THEN MapPut(calls, c, NewCall(BatchPosts(batches)))
              ELSE calls
  /\ UNCHANGED <<comments, upserts>>

\* PostComment(ctx, prNumber, body) called by a client of the package.
PostComment(c, prNumber, body) ==
  /\ ~Busy(c)
  /\ calls' = MapPut(calls, c, NewCall(<<[pr |-> prNumber, body |-> body]>>))
  /\ UNCHANGED <<comments, upserts>>

\* Somebody else comments on the pull request.
UserComment(prNumber, text) ==
  /\ Len(comments) < MaxComments
  /\ comments' = Append(comments, [pr |-> prNumber, body |-> text])
  /\ UNCHANGED <<calls, upserts>>

\* ------------------------------------------ PRWorkQueue, the mutexes

\* The goroutine g is inside a call of the queue.
InCall(g) == g \in DOMAIN mu.at

\* g is at the statement step of a call of op.
At(g, op, step) == InCall(g) /\ mu.at[g].op = op /\ mu.at[g].step = step

\* The goroutines that can call the queue: the package's client, and the
\* callback of a timer while its Processor runs.
CanCall(g) ==
  /\ ~InCall(g)
  /\ \/ g = ClientGoroutine
     \/ \E t \in DOMAIN timers : g = TimerGoroutine(t) /\ timers[t].st = "processing"

queueData == <<now, pending, timers, procLog, shutLog>>

\* g calls Enqueue(p), PendingCount() or Shutdown(): it is at q.mu.Lock().
QueueCall(g, op, p) ==
  /\ CanCall(g)
  /\ op = "Enqueue" =>
       Len(timers) + Cardinality({h \in DOMAIN mu.at : mu.at[h].op = "Enqueue"}) < MaxEnqueue
  /\ mu' = [mu EXCEPT !.at = MapPut(@, g, [op |-> op, pr |-> p, w |-> 0, t |-> 0,
                                            step |-> "q.mu.Lock", left |-> {}])]
  /\ UNCHANGED queueData

\* Enqueue, statement by statement: q.mu.Lock(); work.mu.Lock() on the entry
\* found or made (the entry's two critical sections, one after the other
\* under q.mu, as one); Stop, lastEventAt and time.AfterFunc; work.mu.Unlock();
\* the deferred q.mu.Unlock().  t is the timer the call starts.
EnqueueSteps(g) ==
  \/ /\ At(g, "Enqueue", "q.mu.Lock") /\ mu.q = NoGoroutine
     /\ LET p == mu.at[g].pr
        IN mu' = [mu EXCEPT !.q = g, !.at[g].step = "work.mu.Lock",
                            !.at[g].t = Len(timers) + 1,
                            !.at[g].w = IF p \in DOMAIN pending THEN pending[p].id
                                        ELSE Len(timers) + 1]
     /\ UNCHANGED queueData
  \/ /\ At(g, "Enqueue", "work.mu.Lock") /\ mu.work[mu.at[g].w] = NoGoroutine
     /\ mu' = [mu EXCEPT !.work[mu.at[g].w] = g, !.at[g].step = "time.AfterFunc"]
     /\ UNCHANGED queueData
  \/ /\ At(g, "Enqueue", "time.AfterFunc") /\ Len(timers) < mu.at[g].t
     /\ Enqueue(mu.at[g].pr)
  \/ /\ At(g, "Enqueue", "time.AfterFunc") /\ Len(timers) >= mu.at[g].t
     /\ mu' = [mu EXCEPT !.work[mu.at[g].w] = NoGoroutine, !.at[g].step = "q.mu.Unlock"]
     /\ UNCHANGED queueData
  \/ /\ At(g, "Enqueue", "q.mu.Unlock")
     /\ mu' = [mu EXCEPT !.q = NoGoroutine, !.at = MapDel(@, g)]
     /\ UNCHANGED queueData

\* PendingCount: q.mu.Lock(), len(q.pending), the deferred q.mu.Unlock().
PendingCountSteps(g) ==
  \/ /\ At(g, "PendingCount", "q.mu.Lock") /\ mu.q = NoGoroutine
     /\ mu' = [mu EXCEPT !.q = g, !.at[g].step = "q.mu.Unlock"]
     /\ UNCHANGED queueData
  \/ /\ At(g, "PendingCount", "q.mu.Unlock")
     /\ mu' = [mu EXCEPT !.q = NoGoroutine, !.at = MapDel(@, g)]
     /\ UNCHANGED queueData

\* The entry a Shutdown at its loop locks next.
NextEntry(g) == CHOOSE w \in mu.at[g].left : TRUE

\* Shutdown, statement by statement: q.mu.Lock(); for each pending entry
\* work.mu.Lock(), Stop, work.mu.Unlock(); the fresh table (the timers stop
\* in this step of the model); the deferred q.mu.Unlock().
ShutdownSteps(g) ==
  \/ /\ At(g, "Shutdown", "q.mu.Lock") /\ mu.q = NoGoroutine
     /\ mu' = [mu EXCEPT !.q = g, !.at[g].step = "range",
                         !.at[g].left = {pending[p].id : p \in DOMAIN pending}]
     /\ UNCHANGED queueData
  \/ /\ At(g, "Shutdown", "range") /\ mu.at[g].w = 0 /\ mu.at[g].left # {}
     /\ mu.work[NextEntry(g)] = NoGoroutine
     /\ mu' = [mu EXCEPT !.work[NextEntry(g)] = g, !.at[g].w = NextEntry(g)]
     /\ UNCHANGED queueData
  \/ /\ At(g, "Shutdown", "range") /\ mu.at[g].w # 0
     /\ mu' = [mu EXCEPT !.work[mu.at[g].w] = NoGoroutine, !.at[g].w = 0,
                         !.at[g].left = @ \ {mu.at[g].w}]
     /\ UNCHANGED queueData
  \/ /\ At(g, "Shutdown", "range") /\ mu.at[g].w = 0 /\ mu.at[g].left = {}
     /\ ~shutLog.clean
     /\ Shutdown
  \/ /\ At(g, "Shutdown", "range") /\ mu.at[g].w = 0 /\ mu.at[g].left = {}
     /\ shutLog.clean
     /\ mu' = [mu EXCEPT !.q = NoGoroutine, !.at = MapDel(@, g)]
     /\ UNCHANGED queueData

\* processPR up to the call of the Processor, statement by statement:
\* q.mu.Lock(); the lookup and the delete; q.mu.Unlock() in either branch.
processPRSteps(t) ==
  \/ /\ timers[t].st = "fired" /\ mu.q = NoGoroutine
     /\ mu' = [mu EXCEPT !.q = TimerGoroutine(t)]
     /\ UNCHANGED queueData
  \/ /\ mu.q = TimerGoroutine(t)
     /\ ProcessPRTake(t)
  \/ /\ mu.q = TimerGoroutine(t)
     /\ timers[t].st \in {"taken", "done"}
     /\ mu' = [mu EXCEPT !.q = NoGoroutine]
     /\ UNCHANGED queueData

\* processPR that calls the Processor with q.mu still held (the unlock
\* deferred to its return).
AfterUnlock_Deferred(t) == TRUE

\* processPR calls the Processor after q.mu.Unlock().
AfterUnlock(t) == mu.q # TimerGoroutine(t)

\* The goroutine that holds the mutex g waits for; NoGoroutine when g waits
\* for no mutex or for one that is free.
Awaited(g) ==
  IF InCall(g) /\ mu.at[g].step = "q.mu.Lock" THEN mu.q
  ELSE IF InCall(g) /\ mu.at[g].step = "work.mu.Lock" THEN mu.work[mu.at[g].w]
  ELSE IF At(g, "Shutdown", "range") /\ mu.at[g].w = 0 /\ mu.at[g].left # {}
  THEN mu.work[NextEntry(g)]
  ELSE IF /\ mu.q # g
          /\ \E t \in DOMAIN timers : g = TimerGoroutine(t) /\ timers[t].st = "fired"
  THEN mu.q
  ELSE NoGoroutine

\* ------------------------------------------------------------- XRWatcher

NoHandled ==
  [handler |-> "", xr |-> NilXR, enqueued |-> 0, batches |-> <<>>, returned |-> ""]

\* A watcher in dry-run mode (no VCS client) without ArgoCD client.
NoArgoCD(strat) == [strategy |-> strat, argocd |-> FALSE, apps |-> {}, vcs |-> FALSE]

\* The dry-run configurations: each detection strategy, without an ArgoCD
\* client or with one and any of the two applications present.
Configs ==
  {NoArgoCD(strat) : strat \in Strategies}
  \cup {[strategy |-> strat, argocd |-> TRUE, apps |-> apps, vcs |-> FALSE] :
          strat \in Strategies, apps \in SUBSET {App_pr42shop, App_shop}}

Clusters ==
  {cl \in SUBSET (AllXRs \ {XR_Minus5, XR_PreviewCacheA, XR_CacheA}) :
     Cardinality(cl) <= MaxXRs}

\* The failures one handler run may meet, for the XRs xs it diffs: the diff of
\* an XR fails, the discovery or the lists of detectDeletions fail, the
\* application diff fails.
Envs(xs) ==
  {[diffFail |-> f, unchanged |-> u, discoverFails |-> FALSE, listFails |-> l,
    appFails |-> a] :
     f \in SUBSET xs, u \in {{}, xs}, l \in SUBSET SeqSet(Kinds),
     a \in (IF cfg.argocd THEN BOOLEAN ELSE {FALSE})}
  \cup {[diffFail |-> f, unchanged |-> u, discoverFails |-> TRUE, listFails |-> {},
          appFails |-> a] :
           f \in SUBSET xs, u \in {{}, xs},
           a \in (IF cfg.argocd THEN BOOLEAN ELSE {FALSE})}

\* A run without failures.
\* The state of the watcher when no handler has run.
WatcherInit ==
  /\ cluster \in Clusters
  /\ cfg \in Configs
  /\ fcall = NoCall
  /\ swept = 0
  /\ handled = NoHandled

\* handleXREvent that enqueues whatever DetectPR returns.
handleXREvent_EnqueuesAll(xr) ==
  LET prNumber == w_DetectPR(cfg.strategy, xr)
  IN /\ Len(timers) < MaxEvents /\ Enqueue(prNumber)
     /\ handled' = [handler |-> "handleXREvent", xr |-> xr,
                    enqueued |-> prNumber, batches |-> <<>>, returned |-> ""]
     /\ UNCHANGED <<cluster, cfg, fcall, swept, commentVars, leaderVars>>

\* XRWatcher.handleXREvent for an event on the XR xr: nothing for an XR
\* without PR number, else Enqueue.
handleXREvent(xr) ==
  LET prNumber == w_DetectPR(cfg.strategy, xr)
  IN /\ IF prNumber = 0 THEN UNCHANGED queueVars
        ELSE Len(timers) < MaxEvents /\ Enqueue(prNumber)
     /\ handled' = [handler |-> "handleXREvent", xr |-> xr,
                    enqueued |-> prNumber, batches |-> <<>>, returned |-> ""]
     /\ UNCHANGED <<cluster, cfg, fcall, swept, commentVars, leaderVars>>

\* The batches of reconcileExistingXRs: one per PR number in the list.
RECURSIVE SweepBatches(_, _, _)
SweepBatches(items, prNumbers, env) ==
  IF prNumbers = <<>> THEN <<>>
  ELSE LET xrs == SeqFilter(items, {x \in cluster :
                                      w_DetectPR(cfg.strategy, x) = Head(prNumbers)})
       IN <<handlePRBatch(cfg, cluster, "sweep", Head(prNumbers), xrs, env)>>
          \o SweepBatches(items, Tail(prNumbers), env)

\* XRWatcher.reconcileExistingXRs for one kind, in the goroutine c: list its
\* XRs, group those with a PR number by it, handle each group as a batch.
reconcileExistingXRs(c, kind, listErr, env) ==
  LET items == ListKind(cluster, kind)
      prSet == {w_DetectPR(cfg.strategy, x) : x \in SeqSet(items)} \ {0}
      prNumbers == SetToSeq(prSet)
      batches == IF listErr THEN <<>> ELSE SweepBatches(items, prNumbers, env)
  IN /\ handled' = [handler |-> "reconcileExistingXRs", xr |-> NilXR, enqueued |-> 0,
                    batches |-> batches,
                    returned |-> IF listErr THEN "failed to list resources" ELSE "nil"]
     /\ StartPosts(c, batches)
     /\ UNCHANGED <<cluster, cfg, fcall, queueVars, leaderVars>>

\* The initial reconciliation that ends at a list that fails.
InitialReconciliation_EndsAtFailure(listErr, env) ==
  /\ swept < Len(Kinds)
  /\ ~Busy(RunGoroutine)
  /\ reconcileExistingXRs(RunGoroutine, Kinds[swept + 1], listErr, env)
  /\ swept' = IF listErr THEN swept ELSE swept + 1

\* run, initial reconciliation: the next kind is swept; a failure is logged.
InitialReconciliation(listErr, env) ==
  /\ swept < Len(Kinds)
  /\ ~Busy(RunGoroutine)
  /\ reconcileExistingXRs(RunGoroutine, Kinds[swept + 1], listErr, env)
  /\ swept' = swept + 1

\* run, the goroutine of the periodic reconciliation after a tick of its
\* ticker: the kinds are swept one after the other, as in the initial
\* reconciliation.  swept counts the sweeps of a kind since the start.
PeriodicReconciliation(listErr, env) ==
  /\ swept >= Len(Kinds)
  /\ swept < Len(Kinds) * (1 + MaxPeriodic)
  /\ ~Busy(PeriodicGoroutine)
  /\ reconcileExistingXRs(PeriodicGoroutine, Kinds[(swept % Len(Kinds)) + 1], listErr, env)
  /\ swept' = swept + 1

\* The XRs of the kind that is swept next.
NextSwept == {x \in cluster : x.kind = Kinds[(swept % Len(Kinds)) + 1]}

\* watchGVROnce hands an event of the XR xr to handleXREvent; the watches
\* start when the initial reconciliation is complete.
WatchEvent(xr) ==
  /\ swept >= Len(Kinds)
  /\ handleXREvent(xr)

\* ProcessPR that reports a PR without XRs as an error.
ProcessPR_ErrorWhenEmpty(t, discoverErr, env) ==
  LET prNumber == timers[t].pr
      xrs == findAllPRResources(cfg.strategy, cluster, Kinds, env.listFails, prNumber)
      batches == IF discoverErr \/ xrs = <<>> THEN <<>>
                 ELSE <<handlePRBatch(cfg, cluster, "ProcessPR", prNumber, xrs, env)>>
  IN /\ ProcessPRCall(t)
     /\ handled' = [handler |-> "ProcessPR", xr |-> NilXR, enqueued |-> 0,
                    batches |-> batches,
                    returned |-> IF discoverErr THEN "failed to find PR resources"
                                 ELSE IF xrs = <<>> THEN "no resources found"
                                 ELSE IF cfg.vcs /\ BatchPosts(batches) # <<>>
                                 THEN "PostComment" ELSE "nil"]
     /\ StartPosts(TimerGoroutine(t), batches)
     /\ UNCHANGED <<cluster, cfg, fcall, swept, leaderVars>>

\* XRWatcher.ProcessPR, called by timer t's callback: every XR of the PR over
\* all kinds, handled as one batch.  It returns an error when discovery
\* fails, nil when no XR is found, else what handlePRBatch returns: nil, or
\* with a VCS client and a comment to post what PostComment returns.
ProcessPR(t, discoverErr, env) ==
  LET prNumber == timers[t].pr
      xrs == findAllPRResources(cfg.strategy, cluster, Kinds, env.listFails, prNumber)
      batches == IF discoverErr \/ xrs = <<>> THEN <<>>
                 ELSE <<handlePRBatch(cfg, cluster, "ProcessPR", prNumber, xrs, env)>>
  IN /\ ProcessPRCall(t)
     /\ handled' = [handler |-> "ProcessPR", xr |-> NilXR, enqueued |-> 0,
                    batches |-> batches,
                    returned |-> IF discoverErr THEN "failed to find PR resources"
                                 ELSE IF xrs = <<>> THEN "nil"
                                 ELSE IF cfg.vcs /\ BatchPosts(batches) # <<>>
                                 THEN "PostComment" ELSE "nil"]
     /\ StartPosts(TimerGoroutine(t), batches)
     /\ UNCHANGED <<cluster, cfg, fcall, swept, leaderVars>>

\* The XR xr is deleted from the cluster (its pull request was closed, or the
\* preview was removed from the branch).
DeleteXR(xr) ==
  /\ xr \in cluster
  /\ cluster' = cluster \ {xr}
  /\ handled' = NoHandled
  /\ UNCHANGED <<cfg, fcall, swept, queueVars, commentVars, leaderVars>>

\* --------------------------------------------- leader election, run

\* While this replica runs, its goroutines run.
Running == ctx \in {"live", "cancelled", "returned"}

\* leaderelection.RunOrDie acquires the lease; OnStartedLeading calls w.run
\* with the leader's context.
StartLeading ==
  /\ ctx = "standby"
  /\ lease = "none"
  /\ lease' = "self"
  /\ ctx' = "live"
  /\ UNCHANGED run

\* The context of run is cancelled: main cancels the root context on SIGINT
\* or SIGTERM and the lease is released (ReleaseOnCancel), or the lease could
\* not be renewed and stays in this replica's name until it expires.
CtxCancel(released) ==
  /\ ctx = "live"
  /\ ctx' = "cancelled"
  /\ lease' = IF released THEN "none" ELSE lease
  /\ UNCHANGED run

\* run returns: it has swept the kinds and its context is done.  It leaves
\* the work queue as it is.
RunReturn ==
  /\ ctx = "cancelled"
  /\ swept >= Len(Kinds)
  /\ ~Busy(RunGoroutine)
  /\ ctx' = "returned"
  /\ UNCHANGED <<lease, run>>

\* RunOrDie and Start return, main returns: the process ends.
Exit ==
  /\ ctx = "returned"
  /\ ctx' = "exited"
  /\ UNCHANGED <<lease, run>>

\* The lease of a replica that does not renew it expires.
LeaseExpire ==
  /\ lease = "self"
  /\ ctx # "live"
  /\ lease' = "none"
  /\ UNCHANGED <<ctx, run>>

\* Another replica acquires the lease, and gives it up.
PeerAcquire ==
  /\ lease = "none"
  /\ lease' = "peer"
  /\ UNCHANGED <<ctx, run>>

PeerRelease ==
  /\ lease = "peer"
  /\ lease' = "none"
  /\ UNCHANGED <<ctx, run>>

\* ----------------------------------------------- run, the watch loops

\* XRWatcher.discoverXRDGVRs: the kinds whose XRD has a served and
\* referenceable version, in the order of the list of the XRDs.
discoverXRDGVRs(served) == SeqFilter(Kinds, served)

\* One pass of run over gvrs with reconcileExistingXRs: every kind is listed,
\* the lists of listFails fail and are logged.
Sweep(periodic, gvrs, listFails) ==
  [periodic |-> periodic, listed |-> SeqSet(gvrs), failed |-> listFails \cap SeqSet(gvrs),
   served |-> run.served]

\* What a step of run or of a watch loop leaves in handled.
RunStep(handler, returned) ==
  [NoHandled EXCEPT !.handler = handler, !.returned = returned]

\* An XRD of the cluster gets a served version.
XRDServed(kind) ==
  /\ ctx # "exited"
  /\ kind \notin run.served
  /\ run' = [run EXCEPT !.served = @ \cup {kind}]
  /\ handled' = NoHandled
  /\ UNCHANGED <<lease, ctx, cluster, cfg, swept, fcall, queueVars, commentVars>>

\* run, called by OnStartedLeading, up to where it blocks on ctx.Done: the
\* discovery, whose failure it returns (OnStartedLeading logs it and returns,
\* RunOrDie keeps renewing the lease); the initial reconciliation; a watch
\* loop per kind; the goroutine of the ticker with a positive interval.
run_Start(discoverErr, listFails) ==
  /\ ctx = "live"
  /\ run.phase = "none"
  /\ run' = IF discoverErr THEN [run EXCEPT !.phase = "failed"]
            ELSE [run EXCEPT !.phase = "blocked",
                             !.gvrs = discoverXRDGVRs(run.served),
                             !.watch = [k \in run.served |-> "loop"],
                             !.ticker = IF run.periodic THEN "running" ELSE "none",
                             !.sweeps = 1,
                             !.sweep = Sweep(FALSE, discoverXRDGVRs(run.served), listFails)]
  /\ handled' = RunStep("run", IF discoverErr THEN "failed to discover XRDs" ELSE "")
  /\ UNCHANGED <<lease, ctx, cluster, cfg, swept, fcall, queueVars, commentVars>>

\* The goroutine of the ticker after a tick: reconcileExistingXRs for every
\* kind of gvrs, the slice run has discovered.
run_Periodic(listFails) ==
  /\ ctx \in {"live", "cancelled"}
  /\ run.ticker = "running"
  /\ run.sweeps <= MaxPeriodic
  /\ run' = [run EXCEPT !.sweeps = @ + 1, !.sweep = Sweep(TRUE, run.gvrs, listFails)]
  /\ handled' = RunStep("run", "")
  /\ UNCHANGED <<lease, ctx, cluster, cfg, swept, fcall, queueVars, commentVars>>

\* The goroutine of the ticker returns on ctx.Done.
run_PeriodicDone ==
  /\ ctx = "cancelled"
  /\ run.ticker = "running"
  /\ run' = [run EXCEPT !.ticker = "done"]
  /\ handled' = NoHandled
  /\ UNCHANGED <<lease, ctx, cluster, cfg, swept, fcall, queueVars, commentVars>>

\* run returns nil on ctx.Done.
run_Done ==
  /\ ctx = "cancelled"
  /\ run.phase = "blocked"
  /\ run' = [run EXCEPT !.phase = "returned"]
  /\ handled' = RunStep("run", "nil")
  /\ UNCHANGED <<lease, ctx, cluster, cfg, swept, fcall, queueVars, commentVars>>

\* RunOrDie returns once the context is cancelled, Start returns nil and
\* main returns: the process ends with exit code 0, whatever run has done.
main_Return ==
  /\ ctx = "cancelled"
  /\ ctx' = "exited"
  /\ run' = [run EXCEPT !.exit = "0"]
  /\ handled' = NoHandled
  /\ UNCHANGED <<lease, cluster, cfg, swept, fcall, queueVars, commentVars>>

\* A step of the watch loop of kind that leaves it at position to.
WatchStep(kind, to, returned) ==
  /\ run' = [run EXCEPT !.watch[kind] = to]
  /\ handled' = RunStep("watchGVR", returned)
  /\ UNCHANGED <<lease, ctx, cluster, cfg, swept, fcall, queueVars, commentVars>>

\* watchGVR, top of the loop with a live context: watchGVROnce calls Watch;
\* when that fails the loop sleeps.
watchGVR_Watch(kind, err) ==
  /\ ctx = "live"
  /\ kind \in DOMAIN run.watch /\ run.watch[kind] = "loop"
  /\ WatchStep(kind, IF err THEN "sleep" ELSE "open", IF err THEN "failed to create watcher" ELSE "")

\* watchGVROnce finds the channel closed and ends the loop.
watchGVR_ClosedEndsLoop(kind) ==
  /\ ctx # "exited"
  /\ kind \in DOMAIN run.watch /\ run.watch[kind] = "open"
  /\ WatchStep(kind, "done", "watch channel closed")

\* watchGVROnce finds the channel closed and returns an error; the loop
\* sleeps.
watchGVR_Closed(kind) ==
  /\ ctx # "exited"
  /\ kind \in DOMAIN run.watch /\ run.watch[kind] = "open"
  /\ WatchStep(kind, "sleep", "watch channel closed")

\* The five seconds of the loop's sleep are over.
watchGVR_Retry(kind) ==
  /\ ctx # "exited"
  /\ kind \in DOMAIN run.watch /\ run.watch[kind] = "sleep"
  /\ WatchStep(kind, "loop", "")

\* watchGVROnce receives an event of type Error, or an object that is no
\* Unstructured: it is logged, the stream goes on.
watchGVR_Skip(kind, what) ==
  /\ ctx # "exited"
  /\ kind \in DOMAIN run.watch /\ run.watch[kind] = "open"
  /\ WatchStep(kind, "open", what)

\* watchGVROnce receives an event of the XR xr and hands it to handleXREvent.
watchGVR_Event(kind, xr) ==
  /\ ctx # "exited"
  /\ kind \in DOMAIN run.watch /\ run.watch[kind] = "open"
  /\ xr.kind = kind
  /\ handleXREvent(xr)

\* ctx.Done in watchGVROnce, which returns nil, or at the top of the loop of
\* watchGVR, which returns.
watchGVR_CtxDone(kind) ==
  /\ ctx = "cancelled"
  /\ kind \in DOMAIN run.watch /\ run.watch[kind] \in {"loop", "open"}
  /\ WatchStep(kind, IF run.watch[kind] = "open" THEN "loop" ELSE "done", "")

\* ------------------------------------------------ calls of the detectors

\* The XRs the detectors are called with: names around the pattern
\* pr-{number}-*, label and annotation maps without the key and with values
\* that are and are not integers.
NamePrefixes ==
  {<<>>, <<"p", "r", "-">>, <<"p", "r">>, <<"x", "p", "r", "-">>, <<"p", "-">>}

NameDigits == {<<>>, <<"7">>, <<"1", "2", "3">>, <<"0", "0", "7">>, <<"0">>}

NameTails == {<<>>, <<"a">>, <<"m", "i", "l", "l">>, <<"a", "-", "b">>, <<"4", "2">>}

DetectorNames ==
  {pfx \o dig \o sep \o tl :
     pfx \in NamePrefixes, dig \in NameDigits, sep \in {<<>>, <<"-">>}, tl \in NameTails}

MapValues ==
  {<<"4", "2">>, <<"7">>, <<"0">>, <<"0", "0", "7">>, <<"-", "5">>, <<"+", "5">>,
   <<"4", "a">>, <<"a">>, <<>>, <<" ", "7">>}

\* The maps an XR may carry under the key: none (nil), one without the key,
\* one with the key.
DetectorMaps(key) ==
  {EmptyMap, ("team" :> <<"a">>)}
  \cup {(key :> v) : v \in MapValues}
  \cup {(key :> v) @@ ("team" :> <<"a">>) : v \in {<<"4", "2">>, <<"a">>}}

DetectorInputs ==
  {MkXR("XDB", "", name, EmptyMap, EmptyMap) : name \in DetectorNames}
  \cup {MkXR("XDB", "", name, labels, annotations) :
          name \in {Name_pr7c, Name_a}, labels \in DetectorMaps(DefaultLabelKey),
          annotations \in DetectorMaps(DefaultAnnotationKey)}

\* A call of Detector.DetectPR on the XR at hand, by the detector of the
\* strategy: what it returns, the XR afterwards (the detectors read the name
\* and the copies GetLabels and GetAnnotations return), and whether the
\* call before it was the same call, with what that one returned.
CallDetectPR(strat) ==
  /\ fcall.fn \in {"input", "DetectPR", "GetBaseName"}
  /\ fcall' = [fn |-> "DetectPR", strategy |-> strat, xr |-> fcall.xr,
               xrAfter |-> fcall.xr, out |-> DetectPR(strat, fcall.xr),
               again |-> fcall.fn = "DetectPR" /\ fcall.strategy = strat,
               before |-> IF fcall.fn = "DetectPR" /\ fcall.strategy = strat
                          THEN <<fcall.out>> ELSE <<>>]

\* A call of Detector.GetBaseName on the XR at hand.
CallGetBaseName(strat) ==
  /\ fcall.fn \in {"input", "DetectPR", "GetBaseName"}
  /\ fcall' = [fn |-> "GetBaseName", strategy |-> strat, xr |-> fcall.xr,
               xrAfter |-> fcall.xr, out |-> GetBaseName(strat, fcall.xr),
               again |-> fcall.fn = "GetBaseName" /\ fcall.strategy = strat,
               before |-> IF fcall.fn = "GetBaseName" /\ fcall.strategy = strat
                          THEN <<fcall.out>> ELSE <<>>]

\* ------------------------------------------------------ differ.Sanitizer

\* xr.Object, a tree of maps, as the function from the paths of its leaves to
\* the leaves.  A leaf is a string, a list of strings or an empty map; a list
\* is a []interface{} (what JSON and YAML decode to) or a []string, an
\* integer an int64 (what the API machinery decodes to; DeepCopy admits no
\* int) or an int (what yaml.v3 decodes to), written in digits.
Str(v) == <<"str", v>>
List(vs) == <<"list">> \o vs
Strings(vs) == <<"[]string">> \o vs
Int64(digits) == <<"int64", digits>>
GoInt(digits) == <<"int", digits>>
EmptyObject == <<"map">>

IsPrefix(p, q) == Len(p) <= Len(q) /\ SubSeq(q, 1, Len(p)) = p

\* The leaves of obj at or below the path.
Under(obj, path) == {q \in DOMAIN obj : IsPrefix(path, q)}

\* unstructured.NestedFieldNoCopy: whether the field is found, and its value
\* as the tree below the path.
NestedFieldNoCopy(obj, path) ==
  [found |-> Under(obj, path) # {},
   value |-> [r \in {SubSeq(q, Len(path) + 1, Len(q)) : q \in Under(obj, path)} |->
                obj[path \o r]]]

\* The object without the leaves gone, its map at parent kept though empty.
WithParent(rest, parent) ==
  IF parent # <<>> /\ Under(rest, parent) = {} THEN rest @@ (parent :> EmptyObject)
  ELSE rest

\* unstructured.RemoveNestedField: the field is deleted from its parent map.
RemoveNestedField(obj, path) ==
  WithParent([q \in DOMAIN obj \ Under(obj, path) |-> obj[q]],
             SubSeq(path, 1, Len(path) - 1))

\* reflect.ValueOf(v).Kind() == reflect.Slice
IsSlice(v) == DOMAIN v = {<<>>} /\ v[<<>>][1] \in {"list", "[]string"}

\* Sanitizer.valuesEqual: two slices are compared by length and element by
\* element (strings as strings), whatever their types; everything else by
\* reflect.DeepEqual, for which values of different types differ.
valuesEqual(a, b) ==
  IF IsSlice(a) /\ IsSlice(b) THEN Tail(a[<<>>]) = Tail(b[<<>>]) ELSE a = b

\* Sanitizer.shouldStrip: a rule without Equals strips no field.
shouldStrip(value, rule) ==
  IF rule.hasEquals THEN valuesEqual(value, rule.Equals) ELSE FALSE

\* regexp.Compile of the patterns of the model: an optional ^ and literal
\* characters; an unbalanced parenthesis does not compile.
Compile(pattern) ==
  [err |-> \E i \in DOMAIN pattern : pattern[i] = "(",
   anchored |-> pattern # <<>> /\ pattern[1] = "^",
   lit |-> IF pattern # <<>> /\ pattern[1] = "^" THEN Tail(pattern) ELSE pattern]

\* Regexp.MatchString: the pattern matches somewhere in the text.
MatchString(re, text) ==
  IF re.anchored THEN HasPrefix(text, re.lit)
  ELSE \E i \in 1..(Len(text) + 1) : HasPrefix(SubSeq(text, i, Len(text)), re.lit)

\* The characters of the map keys of the model.
KeyText(key) ==
  CASE key = "ab" -> <<"a", "b">>
    [] key = "ba" -> <<"b", "a">>
    [] key = "c" -> <<"c">>

MetadataPath(field) == <<"metadata", field>>

\* The keys of GetAnnotations or GetLabels (a copy of the map; nil without
\* one).
MapKeys(obj, field) ==
  {q[3] : q \in {r \in Under(obj, MetadataPath(field)) : Len(r) = 3}}

\* SetAnnotations or SetLabels after the keys gone were deleted from the
\* copy: the map is written back, be it empty.
SetWithout(obj, field, gone) ==
  WithParent([q \in DOMAIN obj \ {MetadataPath(field) \o <<k>> : k \in gone} |-> obj[q]],
             MetadataPath(field))

\* What applyRule appends to StrippedFields: the rule's path, for a pattern
\* rule followed by " (pattern: ...)", and the reason.
StrippedField(rule, withPattern) ==
  [Path |-> rule.Path, Pattern |-> IF withPattern THEN rule.Pattern ELSE <<>>,
   Reason |-> rule.Reason]

\* The stripping that records one StrippedField for every key deleted.
StripKeys_PerKey(res, field, rule, gone) ==
  IF gone = {} THEN res
  ELSE [SanitizedXR |-> SetWithout(res.SanitizedXR, field, gone),
        StrippedFields |-> res.StrippedFields
                             \o [i \in 1..Cardinality(gone) |-> StrippedField(rule, TRUE)]]

\* stripMatchingAnnotations and stripMatchingLabels, given the keys that
\* match: one StrippedField for the rule when a key matched.
StripKeys(res, field, rule, gone) ==
  IF gone = {} THEN res
  ELSE [SanitizedXR |-> SetWithout(res.SanitizedXR, field, gone),
        StrippedFields |-> Append(res.StrippedFields, StrippedField(rule, TRUE))]

stripMatching(res, field, rule) ==
  IF Compile(rule.Pattern).err THEN res
  ELSE StripKeys(res, field, rule,
                 {k \in MapKeys(res.SanitizedXR, field) :
                    MatchString(Compile(rule.Pattern), KeyText(k))})

\* applyRule for a field: it is removed when it is found and shouldStrip.
StripField(res, rule, field) ==
  IF ~field.found \/ ~shouldStrip(field.value, rule) THEN res
  ELSE [SanitizedXR |-> RemoveNestedField(res.SanitizedXR, rule.Path),
        StrippedFields |-> Append(res.StrippedFields, StrippedField(rule, FALSE))]

\* Sanitizer.applyRule; the rule's Path is held as strings.Split gives it.
applyRule(res, rule) ==
  IF rule.Pattern # <<>> /\ rule.Path = MetadataPath("annotations")
  THEN stripMatching(res, "annotations", rule)
  ELSE IF rule.Pattern # <<>> /\ rule.Path = MetadataPath("labels")
  THEN stripMatching(res, "labels", rule)
  ELSE StripField(res, rule, NestedFieldNoCopy(res.SanitizedXR, rule.Path))

\* The loop of Sanitize over the rules.
RECURSIVE ApplyRules(_, _)
ApplyRules(res, rules) ==
  IF rules = <<>> THEN res ELSE ApplyRules(applyRule(res, Head(rules)), Tail(rules))

\* DeepCopy: another object with the same content.
DeepCopy(obj) == obj

\* Sanitize that strips from the XR it was given.
Sanitize_InPlace(rules, obj) ==
  [result |-> ApplyRules([SanitizedXR |-> obj, StrippedFields |-> <<>>], rules),
   xrAfter |-> ApplyRules([SanitizedXR |-> obj, StrippedFields |-> <<>>], rules).SanitizedXR]

\* Sanitizer.Sanitize: the SanitizeResult, and the XR it was given as it is
\* after the call (the rules are applied to the copy).
Sanitize(rules, obj) ==
  [result |-> ApplyRules([SanitizedXR |-> DeepCopy(obj), StrippedFields |-> <<>>], rules),
   xrAfter |-> obj]

\* -------------------------------------------- the preview transform

\* An XR with the metadata the transform clears, its spec and its status.
WithIdentity(xr, uid, rv, gen, ts, mf, spec, status) ==
  [kind |-> xr.kind, namespace |-> xr.namespace, name |-> xr.name,
   labels |-> xr.labels, annotations |-> xr.annotations,
   uid |-> uid, resourceVersion |-> rv, generation |-> gen,
   creationTimestamp |-> ts, managedFields |-> mf,
   spec |-> spec, status |-> status]

\* The transform that leaves the resource version on the copy.
PreviewTransform_KeepsVersion(strat, xr) ==
  [xrForDiff |-> [DeepCopy(xr) EXCEPT !.name = GetBaseName(strat, xr),
                                      !.uid = "",
                                      !.generation = 0,
                                      !.creationTimestamp = "",
                                      !.managedFields = <<>>],
   xrAfter |-> xr]

\* handlePRBatch, the clone handed to the differ: a deep copy named
\* GetBaseName(xr) whose UID, resource version, generation, creation
\* timestamp and managed fields are cleared; and the XR afterwards.
PreviewTransform(strat, xr) ==
  [xrForDiff |-> [DeepCopy(xr) EXCEPT !.name = GetBaseName(strat, xr),
                                      !.uid = "",
                                      !.resourceVersion = "",
                                      !.generation = 0,
                                      !.creationTimestamp = "",
                                      !.managedFields = <<>>],
   xrAfter |-> xr]

\* The XRs the transform is called with.
TransformInputs ==
  {WithIdentity(MkXR("XDB", ns, name, labels, annotations), uid, rv, gen, ts, mf, spec, status) :
     ns \in {"", "team"},
     name \in {Name_pr42a, Name_a, <<"p", "r", "-", "1", "2", "3", "-", "m", "i", "l", "l">>},
     labels \in {EmptyMap, (DefaultLabelKey :> <<"4", "2">>)},
     annotations \in {EmptyMap, (DefaultAnnotationKey :> <<"4", "2">>)},
     uid \in {"", "uid-1"}, rv \in {"", "41"}, gen \in {0, 3},
     ts \in {"", "2024-01-01T00:00:00Z"}, mf \in {<<>>, <<"kubectl">>},
     spec \in {EmptyMap, ("size" :> "small")},
     status \in {EmptyMap, ("ready" :> "True")}}

\* The transform of handlePRBatch on the XR at hand.
CallPreviewTransform(strat) ==
  /\ fcall.fn = "input"
  /\ fcall' = [fn |-> "PreviewTransform", strategy |-> strat, xr |-> fcall.xr,
               xrAfter |-> PreviewTransform(strat, fcall.xr).xrAfter,
               out |-> PreviewTransform(strat, fcall.xr).xrForDiff]

\* ------------------------------------------------ calls of the sanitizer

MaxRules == 2

Rule(path, hasEquals, equals, pattern, reason) ==
  [Path |-> path, hasEquals |-> hasEquals, Equals |-> equals, Pattern |-> pattern,
   Reason |-> reason]

\* A value that is a leaf, as NestedFieldNoCopy gives it.
Leaf(l) == (<<>> :> l)

\* The strip rules of the model: the two default rules in small, a label
\* rule, rules whose Equals is a map, a pattern that does not compile, a rule
\* without Equals and Pattern, a field rule that has a Pattern as well, a rule
\* whose Equals is a []string, a rule whose Equals is the integer of a
\* configuration file.
StripRules ==
  {Rule(<<"spec", "managementPolicies">>, TRUE, Leaf(List(<<"Observe">>)), <<>>, "preview"),
   Rule(MetadataPath("annotations"), FALSE, EmptyMap, <<"^", "a">>, "tracking"),
   Rule(MetadataPath("labels"), FALSE, EmptyMap, <<"a">>, "internal"),
   Rule(<<"spec">>, TRUE, (<<"name">> :> Str("x")), <<>>, "whole spec"),
   Rule(<<"spec", "x">>, TRUE, Leaf(EmptyObject), <<>>, "empty"),
   Rule(<<"spec", "x", "y">>, TRUE, Leaf(Str("v")), <<>>, "noise"),
   Rule(MetadataPath("annotations"), FALSE, EmptyMap, <<"(">>, "broken"),
   Rule(<<"spec", "name">>, FALSE, EmptyMap, <<>>, "nothing"),
   Rule(<<"spec", "name">>, TRUE, Leaf(Str("x")), <<"a">>, "both"),
   Rule(<<"spec", "managementPolicies">>, TRUE, Leaf(Strings(<<"Observe">>)), <<>>, "typed"),
   Rule(<<"spec", "replicas">>, TRUE, Leaf(GoInt("3")), <<>>, "scale")}

RECURSIVE RuleLists(_)
RuleLists(n) ==
  IF n = 0 THEN {<<>>}
  ELSE RuleLists(n - 1)
       \cup {Append(rs, r) : rs \in {l \in RuleLists(n - 1) : Len(l) = n - 1},
                             r \in StripRules}

\* The XRs the sanitizer is called with.
SanitizerInputs ==
  {(<<"spec", "managementPolicies">> :> List(<<"Observe">>))
     @@ (<<"spec", "name">> :> Str("x"))
     @@ (<<"metadata", "annotations", "ab">> :> Str("1"))
     @@ (<<"metadata", "annotations", "c">> :> Str("y"))
     @@ (<<"metadata", "labels", "ab">> :> Str("s"))
     @@ (<<"metadata", "labels", "ba">> :> Str("t"))
     @@ (<<"metadata", "labels", "c">> :> Str("k")),
   (<<"spec", "name">> :> Str("x")) @@ (<<"spec", "replicas">> :> Int64("3")),
   (<<"spec", "x", "y">> :> Str("v")) @@ (<<"metadata", "annotations", "ab">> :> Str("1")),
   (<<"spec", "managementPolicies">> :> List(<<"Observe", "Create">>))
     @@ (<<"spec", "name">> :> Str("x"))
     @@ (<<"metadata", "labels">> :> EmptyObject),
   (<<"spec", "managementPolicies">> :> List(<<"Observe">>)),
   (<<"spec", "name">> :> Str("x")) @@ (<<"spec", "x">> :> EmptyObject)
     @@ (<<"metadata", "annotations">> :> EmptyObject)}

\* A call of NewSanitizer(rules).Sanitize(xr) on the XR at hand.
CallSanitize ==
  /\ fcall.fn = "input"
  /\ fcall' = [fn |-> "Sanitize", rules |-> fcall.rules, xr |-> fcall.xr,
               xrAfter |-> Sanitize(fcall.rules, fcall.xr).xrAfter,
               out |-> Sanitize(fcall.rules, fcall.xr).result]

\* The same sanitizer called on the XR it has returned.
CallSanitizeAgain ==
  /\ fcall.fn = "Sanitize"
  /\ fcall' = [fn |-> "SanitizeAgain", rules |-> fcall.rules,
               xr |-> fcall.out.SanitizedXR,
               xrAfter |-> Sanitize(fcall.rules, fcall.out.SanitizedXR).xrAfter,
               out |-> Sanitize(fcall.rules, fcall.out.SanitizedXR).result]

\* ------------------------------------------------------------ pkg/config

\* The pattern of the default rule of the annotations.
ArgoCDPattern == <<"^", "argocd\\.argoproj\\.io/", ".*">>

\* The pattern of the rule of the labels that the README lists.
CompositeLabelPattern == <<"^", "crossplane\\.io/composite", "$">>

\* config.DefaultStripRules: the built-in rules, in their order.
DefaultStripRules ==
  <<Rule(<<"spec", "managementPolicies">>, TRUE, Leaf(List(<<"Observe">>)), <<>>,
         "PR previews forced to read-only mode for safety"),
    Rule(MetadataPath("annotations"), FALSE, EmptyMap, ArgoCDPattern,
         "ArgoCD-managed tracking metadata")>>

\* The default exclusions as the README's table lists them.
DefaultExclusions ==
  <<[Path |-> <<"spec", "managementPolicies">>, hasEquals |-> TRUE,
     Equals |-> Leaf(List(<<"Observe">>)), Pattern |-> <<>>],
    [Path |-> MetadataPath("annotations"), hasEquals |-> FALSE,
     Equals |-> EmptyMap, Pattern |-> ArgoCDPattern],
    [Path |-> MetadataPath("labels"), hasEquals |-> FALSE,
     Equals |-> EmptyMap, Pattern |-> CompositeLabelPattern]>>

\* Config.GetAllStripRules: the defaults when enabled, then the user's rules.
GetAllStripRules(c) ==
  (IF c.StripDefaults THEN DefaultStripRules ELSE <<>>) \o c.StripRules

\* A call of GetAllStripRules on the configuration at hand.
CallGetAllStripRules ==
  /\ fcall.fn = "input"
  /\ fcall' = [fn |-> "GetAllStripRules", c |-> fcall.c, out |-> GetAllStripRules(fcall.c)]

\* ----------------------------------------------------- differ.Calculator

MaxText == 4

\* The characters of the diff engine's output in the model.
TextChars == {"+", "-", " ", "\n", "x"}

RECURSIVE Texts(_)
Texts(n) ==
  IF n = 0 THEN {<<>>}
  ELSE Texts(n - 1)
       \cup {Append(t, c) : t \in {u \in Texts(n - 1) : Len(u) = n - 1}, c \in TextChars}

\* unicode.IsSpace on the characters of the model.
IsSpace(c) == c \in {" ", "\n", "\t", "\r"}

RECURSIVE TrimLeft(_)
TrimLeft(s) == IF s # <<>> /\ IsSpace(Head(s)) THEN TrimLeft(Tail(s)) ELSE s

RECURSIVE TrimRight(_)
TrimRight(s) ==
  IF s # <<>> /\ IsSpace(s[Len(s)]) THEN TrimRight(SubSeq(s, 1, Len(s) - 1)) ELSE s

\* strings.TrimSpace
TrimSpace(s) == TrimRight(TrimLeft(s))

\* strings.Split(s, sep) for a separator of one character.
RECURSIVE Split(_, _)
Split(s, sep) ==
  IF \A i \in DOMAIN s : s[i] # sep THEN <<s>>
  ELSE LET i == CHOOSE k \in DOMAIN s : s[k] = sep /\ \A j \in 1..(k - 1) : s[j] # sep
       IN <<SubSeq(s, 1, i - 1)>> \o Split(SubSeq(s, i + 1, Len(s)), sep)

\* The loop of generateSummary over the lines: additions and deletions.
RECURSIVE CountLines(_, _)
CountLines(lines, n) ==
  IF lines = <<>> THEN n
  ELSE LET line == TrimSpace(Head(lines))
       IN CountLines(Tail(lines),
                     IF Len(line) = 0 THEN n
                     ELSE IF HasPrefix(line, <<"+">>)
                          THEN [n EXCEPT !.additions = @ + 1]
                     ELSE IF HasPrefix(line, <<"-">>)
                          THEN [n EXCEPT !.deletions = @ + 1]
                     ELSE n)

\* The loop of generateSummary without the trimming of the lines.
RECURSIVE CountLines_Untrimmed(_, _)
CountLines_Untrimmed(lines, n) ==
  IF lines = <<>> THEN n
  ELSE CountLines_Untrimmed(Tail(lines),
                            IF Len(Head(lines)) = 0 THEN n
                            ELSE IF HasPrefix(Head(lines), <<"+">>)
                                 THEN [n EXCEPT !.additions = @ + 1]
                            ELSE IF HasPrefix(Head(lines), <<"-">>)
                                 THEN [n EXCEPT !.deletions = @ + 1]
                            ELSE n)

\* GetKind and GetName of an unstructured object: "" without the field.
GetString(obj, path) ==
  IF path \in DOMAIN obj /\ obj[path][1] = "str" THEN obj[path][2] ELSE ""

GetKind(obj) == GetString(obj, <<"kind">>)

GetName(obj) == GetString(obj, MetadataPath("name"))

\* The summary of generateSummary, given what it has counted.
SummaryText(xr, hasChanges, n) ==
  IF ~hasChanges THEN <<"No changes detected for ", GetKind(xr), "/", GetName(xr)>>
  ELSE <<"Changes detected for ", GetKind(xr), "/", GetName(xr),
         ": +", ToString(n.additions), " -", ToString(n.deletions), " lines">>

\* generateSummary that counts the lines as they are.
generateSummary_Untrimmed(xr, diff, hasChanges) ==
  SummaryText(xr, hasChanges,
              CountLines_Untrimmed(Split(diff, "\n"), [additions |-> 0, deletions |-> 0]))

\* Calculator.generateSummary
generateSummary(xr, diff, hasChanges) ==
  SummaryText(xr, hasChanges,
              CountLines(Split(diff, "\n"), [additions |-> 0, deletions |-> 0]))

\* No sanitizer configured (c.sanitizer == nil).
NoSanitizer == [configured |-> FALSE, rules |-> <<>>]

NewSanitizer(rules) == [configured |-> TRUE, rules |-> rules]

\* What CalculateDiff returns with an error.
NilDiffResult == [XR |-> EmptyMap, RawDiff |-> <<>>, HasChanges |-> FALSE, Summary |-> <<>>,
                  StrippedFields |-> <<>>, ManagedResources |-> "nil"]

\* The DiffResult of CalculateDiff once the engine has written diffOutput.
DiffResult(xr, stripped, env) ==
  [XR |-> xr, RawDiff |-> env.text,
   HasChanges |-> Len(TrimSpace(env.text)) > 0,
   Summary |-> generateSummary(xr, env.text, Len(TrimSpace(env.text)) > 0),
   StrippedFields |-> stripped,
   ManagedResources |-> IF env.fetchErr THEN "nil" ELSE "fetched"]

\* CalculateDiff from the sanitizing on, given what Sanitize returns: the
\* engine (PerformDiff) is given xrForDiff; env holds what it writes and
\* whether it and fetchManagedResources fail.
DiffSanitized(xr, sanitized, env) ==
  [err |-> IF env.err THEN "failed to calculate diff" ELSE "",
   result |-> IF env.err THEN NilDiffResult
              ELSE DiffResult(xr, sanitized.result.StrippedFields, env),
   engineGot |-> <<sanitized.result.SanitizedXR>>,
   xrAfter |-> sanitized.xrAfter]

\* CalculateDiff that hands the XR it was given to the engine.
CalculateDiff_DiffsInput(sanitizer, xr, env) ==
  IF env.initErr
  THEN [err |-> "failed to initialize calculator", result |-> NilDiffResult,
        engineGot |-> <<>>, xrAfter |-> xr]
  ELSE DiffSanitized(xr, [result |-> [SanitizedXR |-> xr,
                                      StrippedFields |->
                                        IF sanitizer.configured
                                        THEN Sanitize(sanitizer.rules, xr).result.StrippedFields
                                        ELSE <<>>],
                          xrAfter |-> xr], env)

\* Calculator.CalculateDiff: an error when the calculator cannot be
\* initialized; else the XR is sanitized when a sanitizer is configured and
\* the diff engine is called.
CalculateDiff(sanitizer, xr, env) ==
  IF env.initErr
  THEN [err |-> "failed to initialize calculator", result |-> NilDiffResult,
        engineGot |-> <<>>, xrAfter |-> xr]
  ELSE IF sanitizer.configured
  THEN DiffSanitized(xr, Sanitize(sanitizer.rules, xr), env)
  ELSE DiffSanitized(xr, [result |-> [SanitizedXR |-> xr, StrippedFields |-> <<>>],
                          xrAfter |-> xr], env)

\* The XRs CalculateDiff is called with.
CalculatorInputs ==
  {x @@ (<<"kind">> :> Str("XDB")) @@ (MetadataPath("name") :> Str("db")) :
     x \in SanitizerInputs}
  \cup {(<<"kind">> :> Str("XDB")) @@ (<<"spec", "name">> :> Str("x"))}

\* A call of CalculateDiff on the XR at hand.
CallCalculateDiff ==
  /\ fcall.fn = "input"
  /\ fcall' = [fn |-> "CalculateDiff", sanitizer |-> fcall.sanitizer, xr |-> fcall.xr,
               env |-> fcall.env,
               out |-> CalculateDiff(fcall.sanitizer, fcall.xr, fcall.env)]

\* ------------------------------------------------- the queue's claims

\* The Enqueue calls for PR p, by number (timer k is started by call k).
EnqOf(p) == {k \in DOMAIN timers : timers[k].pr = p}

\* When Enqueue call k was made.
EnqAt(k) == timers[k].deadline - Debounce

\* Every Enqueue call for p so far followed the one before it by less than the
\* debounce.
Chained(p) ==
  /\ EnqOf(p) # {}
  /\ \A k \in EnqOf(p) : \A j \in EnqOf(p) :
       (j < k /\ ~(\E m \in EnqOf(p) : j < m /\ m < k)) => EnqAt(k) - EnqAt(j) < Debounce

ProcOf(p) == {i \in DOMAIN procLog : procLog[i].pr = p}

\* No timer of p can still lead to a Processor call.
Drained(p) == \A k \in EnqOf(p) : timers[k].st \in {"stopped", "processing", "done"}

C4_ShutdownCancels ==
  /\ shutLog.clean => PendingCount = 0
  /\ \A i \in DOMAIN procLog : \A w \in shutLog.works : procLog[i].work # w.id

\* C4's case: at Shutdown a pending PR's timer had expired and its callback
\* had not run; the callback has run since.
C4_Witness ==
  /\ shutLog.clean
  /\ \E w \in shutLog.works : w.st = "fired" /\ timers[w.timer].st = "done"

\* C7: the callback takes the entry out of the table before it calls the
\* Processor, calls it once for that entry, and no entry is processed twice; a
\* PR that is pending after the call is pending as another, later entry.
C7_RemoveThenProcessOnce ==
  /\ \A t \in DOMAIN timers :
       LET p == timers[t].pr
           invoked == {i \in DOMAIN procLog : procLog[i].timer = t}
       IN /\ timers[t].st \in {"taken", "processing"} =>
               (p \in DOMAIN pending => pending[p].id # timers[t].work)
          /\ timers[t].st = "taken" => invoked = {}
          /\ timers[t].st = "processing" => Cardinality(invoked) = 1
          /\ (timers[t].st = "done" /\ timers[t].work # 0) => Cardinality(invoked) = 1
          /\ timers[t].work = 0 => invoked = {}
          /\ \A i \in invoked : procLog[i].work = timers[t].work /\ procLog[i].pr = p
  /\ \A i \in DOMAIN procLog : \A j \in DOMAIN procLog :
       i # j => procLog[i].work # procLog[j].work
  /\ \A i \in DOMAIN procLog :
       LET p == procLog[i].pr
       IN p \in DOMAIN pending => pending[p].id > procLog[i].work

\* C7's case: a PR was processed and was enqueued again while the Processor
\* ran.
C7_Witness ==
  \E i \in DOMAIN procLog :
    /\ timers[procLog[i].timer].st = "processing"
    /\ procLog[i].pr \in DOMAIN pending

\* The entry of p in a table, if any.
EntryOf(m, p) == IF p \in DOMAIN m THEN <<m[p]>> ELSE <<>>

\* The timers of p.
TimersOf(ts, p) == [k \in {j \in DOMAIN ts : ts[j].pr = p} |-> ts[k]]

\* This step changed the entry of p or one of its timers, or started one.
Touched(p) ==
  \/ EntryOf(pending', p) # EntryOf(pending, p)
  \/ TimersOf(timers', p) # TimersOf(timers, p)

\* C15: no step other than Shutdown changes the entries or timers of two PRs,
\* so that an Enqueue, an expiry or a callback of one PR leaves every other
\* PR's entry and timers (their state and deadline) as they were; and when
\* each PR was enqueued at most once (no Shutdown) and the timers have run
\* out, the Processor was invoked once for each PR enqueued and for no other.
C15_DistinctPRsIndependent ==
  /\ [][(~shutLog.clean /\ shutLog'.clean) \/
        \A p \in PRs : \A q \in PRs : p # q => ~(Touched(p) /\ Touched(q))]_vars
  /\ []((/\ ~shutLog.called
         /\ \A p \in PRs : Cardinality(EnqOf(p)) <= 1
         /\ \A p \in PRs : Drained(p)) =>
          /\ {procLog[i].pr : i \in DOMAIN procLog} = {p \in PRs : EnqOf(p) # {}}
          /\ \A p \in PRs : Cardinality(ProcOf(p)) = Cardinality(EnqOf(p)))

\* C15's case: two PRs enqueued once each, less than the debounce apart, are
\* both with the Processor.
C15_Witness ==
  /\ ~shutLog.called
  /\ \A p \in PRs : Cardinality(EnqOf(p)) = 1
  /\ Len(timers) = 2 /\ timers[2].deadline - timers[1].deadline < Debounce
  /\ \A k \in DOMAIN timers : timers[k].st = "processing"
  /\ {procLog[i].pr : i \in DOMAIN procLog} = PRs

\* C16: the step in which the Processor returns an error changes neither the
\* table nor any other timer and starts no timer; the entry handed to a
\* Processor that failed is never in the table again, and a live timer of that
\* PR belongs to a later Enqueue call.
C16_NoRequeueOnError ==
  /\ [][\A t \in DOMAIN timers :
          (timers[t].st = "processing" /\ timers'[t].st = "done" /\ timers'[t].err) =>
            /\ pending' = pending
            /\ DOMAIN timers' = DOMAIN timers
            /\ \A k \in DOMAIN timers : k # t => timers'[k] = timers[k]]_vars
  /\ [](\A t \in DOMAIN timers :
          timers[t].err =>
            /\ timers[t].st = "done"
            /\ timers[t].pr \in DOMAIN pending => pending[timers[t].pr].id > timers[t].work)

\* C16's case: the Processor failed for a PR, the debounce has passed since,
\* and the PR is not pending and has no live timer.
C16_Witness ==
  \E t \in DOMAIN timers :
    /\ timers[t].err
    /\ timers[t].pr \notin DOMAIN pending
    /\ now >= timers[t].deadline + Debounce
    /\ \A k \in EnqOf(timers[t].pr) : timers[k].st \in {"stopped", "done"}

\* The callbacks whose Processor is running for p.
Processing(p) == {t \in EnqOf(p) : timers[t].st = "processing"}

\* C34: for one PR the Processor invocations never overlap: no second one
\* begins while an earlier one for the same PR is running, also when the PR is
\* enqueued during processing.
C34_NoOverlapPerPR == \A p \in PRs : Cardinality(Processing(p)) <= 1

\* C36: a Processor invocation for a PR never begins less than the debounce
\* after the most recent Enqueue for that PR that preceded it: in the step in
\* which the Processor is called, every Enqueue call made for the PR so far is
\* at least the debounce old.
C36_ProcessorAfterDebounce ==
  [][\A t \in DOMAIN timers :
       (timers[t].st = "taken" /\ timers'[t].st = "processing") =>
         \A k \in EnqOf(timers[t].pr) : now - EnqAt(k) >= Debounce]_vars

\* The entry w of the table is pending with the timer of Enqueue call k: that
\* call has returned, and no later call for the PR has.
PendingSince(k, w) ==
  \E p \in DOMAIN pending : pending[p].timer = k /\ pending[p].id = w

\* The Processor has been invoked for the entry w, of the PR of Enqueue call
\* k, and the entry is out of the table.
ProcessedSince(k, w) ==
  /\ k \in DOMAIN timers
  /\ \E i \in DOMAIN procLog : procLog[i].work = w /\ procLog[i].pr = timers[k].pr
  /\ \A p \in DOMAIN pending : pending[p].id # w

\* C35: no trigger is lost: without Shutdown, and with Enqueue calls that
\* stop, every Enqueue that has returned is followed by a Processor
\* invocation for its PR that begins after it (the entry the call left in the
\* table is not with the Processor before it is taken out, and is handed to
\* it), and in the end no PR is pending.
C35_NoTriggerLost ==
  /\ [](\A i \in DOMAIN procLog : \A p \in DOMAIN pending :
          pending[p].id # procLog[i].work)
  /\ \A k \in 1..MaxEnqueue : \A w \in 1..k : PendingSince(k, w) ~> ProcessedSince(k, w)
  /\ <>[](pending = EmptyMap)

\* C35's case: a PR was enqueued again when its timer had expired and the
\* callback had not yet removed the entry; the Processor has been invoked for
\* it since and the PR is not pending.
C35_Witness ==
  \E p \in PRs : \E k \in EnqOf(p) : \E j \in EnqOf(p) :
    /\ j < k /\ timers[j].deadline <= EnqAt(k)
    /\ timers[j].work # 0 /\ timers[j].st \in {"processing", "done"}
    /\ timers[k].st = "done" /\ timers[k].work = 0
    /\ p \notin DOMAIN pending

\* The goroutines of the queue.
Goroutines == {ClientGoroutine} \cup {TimerGoroutine(t) : t \in 1..MaxEnqueue}

\* The goroutine whose Processor runs holds a mutex outside of a call it
\* makes to the queue.
HoldsAcrossProcessor(t) ==
  /\ timers[t].st = "processing" /\ ~InCall(TimerGoroutine(t))
  /\ \/ mu.q = TimerGoroutine(t)
     \/ \E w \in DOMAIN mu.work : mu.work[w] = TimerGoroutine(t)

\* C33: the queue keeps its lock order and never deadlocks: whoever holds an
\* entry's mutex holds q.mu; a goroutine whose Processor runs holds neither
\* mutex (outside of the calls it makes itself); no goroutine waits for a
\* mutex it holds; and whoever holds a mutex that another goroutine waits for
\* does not wait for a mutex that is held, so a Processor that calls Enqueue
\* or PendingCount gets q.mu.
C33_LockOrderNoDeadlock ==
  /\ \A w \in DOMAIN mu.work : mu.work[w] # NoGoroutine => mu.q = mu.work[w]
  /\ \A t \in DOMAIN timers : ~HoldsAcrossProcessor(t)
  /\ \A g \in Goroutines :
       Awaited(g) # NoGoroutine =>
         /\ Awaited(g) # g
         /\ Awaited(Awaited(g)) = NoGoroutine

\* C33's case: a Processor is inside Enqueue for its own PR and holds q.mu and
\* the entry's mutex, while the client and the callback of another timer
\* wait for q.mu.
C33_Witness ==
  \E t \in DOMAIN timers :
    /\ timers[t].st = "processing"
    /\ At(TimerGoroutine(t), "Enqueue", "time.AfterFunc")
    /\ mu.at[TimerGoroutine(t)].pr = timers[t].pr
    /\ mu.q = TimerGoroutine(t) /\ mu.work[mu.at[TimerGoroutine(t)].w] = TimerGoroutine(t)
    /\ Awaited(ClientGoroutine) = TimerGoroutine(t)
    /\ \E k \in DOMAIN timers : k # t /\ Awaited(TimerGoroutine(k)) = TimerGoroutine(t)

\* ------------------------------------------------ the watcher's claims

Batches == {handled.batches[i] : i \in DOMAIN handled.batches}

\* The production XRs of the cluster: those without PR number.
ProductionXRs == {x \in cluster : w_DetectPR(cfg.strategy, x) = 0}

\* The kinds of the preview XRs of the batch b.
BatchKinds(b) == {x.kind : x \in SeqSet(b.xrs)}

DeletionKeys(b) == {k \in DOMAIN b.results : IsDeletionKey(k)}

\* The kind of the resource a deletion entry is about.
EntryKind(e) == IF e.Resource = NilResource THEN e.XR.kind ELSE e.Resource.kind

\* What the pattern pr-{number}-* leaves of a name: the part after
\* pr-<digits>-, or the whole name.
TailOf(name) ==
  LET d == DigitRun(name, 4)
  IN IF HasPrefix(name, <<"p", "r", "-">>) /\ d >= 1 /\ 4 + d <= Len(name)
        /\ name[4 + d] = "-"
     THEN SubSeq(name, 5 + d, Len(name))
     ELSE name

\* The XR x has an entry in the aggregation map of the batch b: as a diffed
\* XR under its name, or as a deletion.
Diffed(x, b) == x.name \in DOMAIN b.results

AsDeletion(x, b) ==
  \E k \in DOMAIN b.results :
    \/ b.results[k].XR = x
    \/ b.results[k].Resource = MkResource(x.kind, x.namespace, x.name)

\* An XR without PR number was never enqueued: no timer is for PR 0 and the
\* event of such an XR enqueues nothing.
NeverEnqueued ==
  /\ \A t \in DOMAIN timers : timers[t].pr # 0
  /\ (handled.handler = "handleXREvent" /\ handled.xr \in ProductionXRs)
       => handled.enqueued = 0

C10_DeletionExactlyForMissing ==
  \A b \in Batches :
    (cfg.strategy = "name" /\ ~b.gitops) =>
      \A x \in ProductionXRs :
        (x.kind \in BatchKinds(b) /\ x.kind \in b.listed) =>
          (DeletionKey(x.name) \in DOMAIN b.results
             <=> x.name \notin {TailOf(y.name) : y \in SeqSet(b.xrs)})

\* The batches that have run.
RanBatches == {b \in Batches : b.ran}

\* A scope was resolved for the batch b: there is an ArgoCD client and the
\* first XR carries the instance label.
ScopeResolved(b) == cfg.argocd /\ ArgoCDInstanceLabel \in DOMAIN b.xrs[1].labels

\* The entries of the batch b that the application diff has contributed, and
\* those that detectDeletions has.
ArgoEntries(b) == {k \in DeletionKeys(b) : b.results[k].Resource # NilResource}

LabelFreeEntries(b) == {k \in DeletionKeys(b) : b.results[k].Resource = NilResource}

\* C31: in every batch one deletion-detection mode contributes the deletion
\* entries: the application diff when a scope was resolved and the diff
\* succeeded, else the label-free detection; whatever deletion detection
\* does, also when it fails, every diffed XR keeps its entry and the batch
\* goes on to its comment.
C31_OneDeletionMode ==
  \A b \in RanBatches :
    /\ b.gitops <=> (ScopeResolved(b) /\ ~b.appErr)
    /\ b.gitops =>
         /\ LabelFreeEntries(b) = {} /\ b.listed = {}
         /\ ArgoEntries(b) = {DeletionKey(d.name) : d \in b.argocdDiff.Deletions}
    /\ ~b.gitops =>
         /\ ArgoEntries(b) = {} /\ b.argocdDiff = NilAppDiff
         /\ \A k \in LabelFreeEntries(b) : b.results[k].XR.kind \in b.listed
    /\ \A y \in SeqSet(b.xrs) \ b.diffFail :
         /\ Diffed(y, b)
         /\ b.results[y.name].XR = TransformForDiff(cfg.strategy, y)
    /\ SeqSet(b.xrs) # b.diffFail => b.template # "none"

\* C31's case: one sweep has handled a batch with the deletions of the
\* application diff and a batch without scope, which has a deletion of the
\* label-free detection next to the entry of its XR.
C31_Witness ==
  /\ \E b \in RanBatches : b.gitops /\ ArgoEntries(b) # {}
  /\ \E b \in RanBatches :
       /\ ~ScopeResolved(b)
       /\ LabelFreeEntries(b) # {}
       /\ Diffed(b.xrs[1], b)

\* The batches for which a comment was formatted.
FormattedBatches == {b \in RanBatches : b.template # "none"}

\* C32: the single-XR template is used exactly when the aggregation map has
\* one entry and no deletion was aggregated, the multi-XR template in every
\* other case.
C32_SingleTemplateForOneXR ==
  \A b \in FormattedBatches :
    /\ b.template \in {"single", "multi"}
    /\ b.template = "single"
         <=> (Cardinality(DOMAIN b.results) = 1 /\ DeletionKeys(b) = {})

\* The batches formatted with the single-XR template.
SingleBatches == {b \in RanBatches : b.template = "single"}

\* C40: when the single-XR template is used, the XR handed to the formatter
\* is the resource the rendered result belongs to: the one entry of the map
\* is the diff of the batch's first XR, also when the first XR failed to diff
\* or the only entry is a deletion.
C40_FormatterGetsTheResultsXR ==
  \A b \in SingleBatches :
    LET e == b.results[CHOOSE k \in DOMAIN b.results : TRUE]
    IN /\ BatchComment(b) = FormatDiff(b.xrs[1], e)
       /\ b.xrs[1] \notin b.diffFail
       /\ DOMAIN b.results = {b.xrs[1].name}
       /\ e.XR = TransformForDiff(cfg.strategy, b.xrs[1])

\* The batches the sweep has handed to handlePRBatch.
SweepRanBatches == {b \in RanBatches : b.path = "sweep"}

\* C37: on an unchanged cluster the sweep hands the batch handler, for a PR,
\* the XRs that ProcessPR hands it: every XR of the PR over all discovered
\* kinds, in one batch.
C37_SweepBatchIsProcessPRBatch ==
  \A b \in SweepRanBatches :
    /\ b.xrs = findAllPRResources(cfg.strategy, cluster, Kinds, {}, b.prNumber)
    /\ SeqSet(b.xrs) = {x \in cluster : w_DetectPR(cfg.strategy, x) = b.prNumber}

\* The production XRs that detectDeletions reports for the batch b: those of
\* a listed kind that the PR touches whose name is no base name of the PR.
LabelFreeDeletions(b) ==
  {x \in cluster :
     /\ w_DetectPR(cfg.strategy, x) = 0
     /\ x.kind \in b.listed
     /\ x.kind \in {y.kind : y \in SeqSet(b.xrs)}
     /\ x.name \notin {w_GetBaseName(cfg.strategy, y) : y \in SeqSet(b.xrs)}}

\* C38: within one batch every XR whose diff succeeded and every detected
\* deletion has an entry of its own: the map has as many entries as there are
\* diffed XRs and deletions, also when resources of different kinds share a
\* name.
C38_OneEntryPerResource ==
  \A b \in RanBatches :
    Cardinality(DOMAIN b.results)
      = Cardinality(SeqSet(b.xrs) \ b.diffFail)
        + (IF b.gitops THEN Cardinality(b.argocdDiff.Deletions)
           ELSE Cardinality(LabelFreeDeletions(b)))

\* C39: the label-free detection matches per kind: a production XR of a
\* listed kind K that the PR touches gets a deletion entry whenever no PR XR
\* of kind K has its name as base name, whatever the PR XRs of other kinds
\* are called.
C39_DeletionsMatchPerKind ==
  \A b \in RanBatches : ~b.gitops =>
    \A x \in cluster :
      ( /\ w_DetectPR(cfg.strategy, x) = 0
        /\ x.kind \in b.listed
        /\ \E y \in SeqSet(b.xrs) : y.kind = x.kind
        /\ \A y \in SeqSet(b.xrs) :
             y.kind = x.kind => w_GetBaseName(cfg.strategy, y) # x.name )
      => DeletionKey(x.name) \in DOMAIN b.results

\* The batches in which the diff of an XR failed.
FailedBatches == {b \in Batches : b.ran /\ b.diffFail # {}}

\* Deletion detection has run for the batch b: the application's deletions
\* are in the map, or in label-free mode the production XRs of the kinds
\* listed that no XR of the batch (failed or not) is a preview of.
DeletionsDetected(b) ==
  IF b.gitops
  THEN \A d \in b.argocdDiff.Deletions : DeletionKey(d.name) \in DOMAIN b.results
  ELSE \A x \in ProductionXRs :
         (x.kind \in BatchKinds(b) /\ x.kind \in b.listed) =>
           (DeletionKey(x.name) \in DOMAIN b.results
              <=> x.name \notin {w_GetBaseName(cfg.strategy, y) : y \in SeqSet(b.xrs)})

\* An XR whose diff failed has no entry, every other XR of the batch has its
\* entry, and deletion detection has run.
FailureIsPerXR(b) ==
  /\ \A x \in b.diffFail : ~Diffed(x, b)
  /\ \A y \in SeqSet(b.xrs) \ b.diffFail :
       /\ Diffed(y, b)
       /\ b.results[y.name].XR = TransformForDiff(cfg.strategy, y)
  /\ DeletionsDetected(b)

\* C17, as stated: when the diff of an XR of a batch fails, that XR has no
\* entry, the other XRs have theirs, deletion detection runs and the batch
\* goes on to its comment.
C17_FailedDiffStillComments ==
  \A b \in FailedBatches : FailureIsPerXR(b) /\ b.template # "none"

\* C17, amended: when the diff of an XR of a batch fails, that XR has no
\* entry, the other XRs have theirs, deletion detection runs, and the batch
\* goes on to its comment exactly when the aggregation map is not empty: a
\* batch whose diffs all failed and that has no deletion ends without one.
C17_FailedDiffIsPerXR ==
  \A b \in FailedBatches :
    /\ FailureIsPerXR(b)
    /\ b.template # "none" <=> DOMAIN b.results # {}
    /\ SeqSet(b.xrs) # b.diffFail => b.template # "none"

\* C17's case: the diff of the first XR of a batch of two failed, the second
\* XR has its entry next to a deletion entry, and the batch has a comment.
C17_Witness ==
  \E b \in FailedBatches :
    /\ Len(b.xrs) = 2 /\ b.diffFail = {b.xrs[1]}
    /\ Diffed(b.xrs[2], b)
    /\ DeletionKeys(b) # {}
    /\ b.template = "multi"

\* C19: every PR number that was enqueued, handed to the Processor or to the
\* batch handler, or used in an upsert is positive.
C19_PRIdsPositive ==
  /\ \A t \in DOMAIN timers : timers[t].pr > 0
  /\ \A p \in DOMAIN pending : p > 0
  /\ \A i \in DOMAIN procLog : procLog[i].pr > 0
  /\ \A b \in Batches : b.ran => b.prNumber > 0
  /\ \A p \in DOMAIN upserts : p > 0

\* ---------------------------------------------- the comment's claims

\* The ids of the PR's comments that start with the identifier.
PlanComments(prNumber) ==
  {i \in DOMAIN comments : comments[i].pr = prNumber /\ IsPlanComment(comments[i])}

\* C3: upserts of one PR made one after another leave one marker comment:
\* the first creates it, every later one edits that comment id, and its body
\* is the identifier, two newlines and the body of the last upsert (also when
\* that body is upserted twice).
C3_SequentialUpsertOneComment ==
  \A p \in DOMAIN upserts :
    /\ Cardinality(PlanComments(p)) = 1
    /\ upserts[p].creates = 1
    /\ upserts[p].ids = PlanComments(p)
    /\ \A i \in PlanComments(p) :
         /\ comments[i].body = CommentBody(upserts[p].body)
         /\ comments[i].body[1] = CommentIdentifier
         /\ SubSeq(comments[i].body, 4, Len(comments[i].body)) = upserts[p].body

\* The same body upserted twice for a PR, the second time by an edit, with
\* another comment on the PR before the marker comment.
C3_Witness ==
  \E p \in DOMAIN upserts :
    /\ upserts[p].repeat
    /\ upserts[p].op = "edit"
    /\ \E i \in DOMAIN comments :
         comments[i].pr = p /\ ~IsPlanComment(comments[i]) /\ i < upserts[p].id

\* ---------------------------------------------- the process's claims

\* The timer whose callback made the last Processor call, and its PR.
LastTimer == procLog[Len(procLog)].timer

LastPR == procLog[Len(procLog)].pr

\* C18: when ProcessPR has run for a PR whose number no XR of the cluster
\* carries (and discovery did not fail), it returned nil, handled no batch,
\* and its goroutine made no PostComment call, so that no comment was looked
\* up, created or edited by it.
C18_EmptyPRIsSilent ==
  (/\ handled.handler = "ProcessPR"
   /\ handled.returned # "failed to find PR resources"
   /\ \A x \in cluster : w_DetectPR(cfg.strategy, x) # LastPR) =>
     /\ handled.returned = "nil"
     /\ handled.batches = <<>>
     /\ TimerGoroutine(LastTimer) \notin DOMAIN calls

\* C18's case: the PR's only XR was there when the PR was enqueued and is
\* gone when ProcessPR runs, with every list succeeding; the PR has a comment
\* from the initial reconciliation, which stays as it is.
C18_Witness ==
  /\ handled.handler = "ProcessPR"
  /\ handled.returned = "nil"
  /\ ctx = "live"
  /\ \A x \in cluster : w_DetectPR(cfg.strategy, x) # LastPR
  /\ cluster # {}
  /\ LastPR \in DOMAIN upserts
  /\ \A c \in DOMAIN calls : ~Busy(c)

\* C1: once the reconciles of the leader (sweeps and debounced ProcessPR
\* runs, in any interleaving) have returned and an upsert of a PR has
\* succeeded, exactly one comment of that PR starts with the identifier.
C1_OneMarkerCommentPerPR ==
  (\A c \in DOMAIN calls : ~Busy(c)) =>
    \A p \in DOMAIN upserts : Cardinality(PlanComments(p)) = 1

\* C5: the work queue is shut down when the context of run is done: no
\* debounce timer fires into a ProcessPR invocation afterwards, so every
\* ProcessPR invocation begins with a live context.
C5_NoProcessPRAfterCancel ==
  handled.handler = "ProcessPR" => ctx = "live"

\* C6: a replica takes no step of the reconcile pipeline while another
\* replica holds the lease.
C6_IdleWhilePeerLeads ==
  lease = "peer" =>
    /\ handled.handler = ""
    /\ \A c \in DOMAIN calls : ~Busy(c)

\* --------------------------------------------- the detectors' claims

\* The name has the form pr-<digits>-<tail>.
IsPreviewName(name) ==
  /\ HasPrefix(name, <<"p", "r", "-">>)
  /\ DigitRun(name, 4) >= 1
  /\ 4 + DigitRun(name, 4) <= Len(name)
  /\ name[4 + DigitRun(name, 4)] = "-"

\* The number of a name of that form.
NumberOf(name) == DigitsVal(SubSeq(name, 4, 3 + DigitRun(name, 4)))

\* C11: the name detector of pattern pr-{number}-* returns, for a name
\* pr-<digits>-<tail>, the number from DetectPR and <tail> from GetBaseName;
\* for any other name, 0 and the name itself.
C11_NameDetectorSplitsName ==
  (fcall.fn \in {"DetectPR", "GetBaseName"} /\ fcall.strategy = "name") =>
    /\ fcall.fn = "DetectPR" =>
         fcall.out = (IF IsPreviewName(fcall.xr.name) THEN NumberOf(fcall.xr.name) ELSE 0)
    /\ fcall.fn = "GetBaseName" =>
         fcall.out = (IF IsPreviewName(fcall.xr.name) THEN TailOf(fcall.xr.name)
                      ELSE fcall.xr.name)

\* The text is an integer: digits, after a sign or without one.
IsInteger(s) ==
  /\ s # <<>>
  /\ IF s[1] \in {"+", "-"}
     THEN Len(s) > 1 /\ \A i \in 2..Len(s) : s[i] \in Digits
     ELSE \A i \in 1..Len(s) : s[i] \in Digits

\* The integer that the text is.
IntegerOf(s) ==
  IF s[1] = "-" THEN 0 - DigitsVal(Tail(s))
  ELSE IF s[1] = "+" THEN DigitsVal(Tail(s))
  ELSE DigitsVal(s)

\* The integer under the key of a map, 0 without the key or without an
\* integer there.
IntegerUnder(m, key) ==
  IF key \in DOMAIN m /\ IsInteger(m[key]) THEN IntegerOf(m[key]) ELSE 0

\* C20: DetectPR of each detector returns the integer that the name (of the
\* form pr-<digits>-<tail>), the label or the annotation holds, and 0 when
\* the key is absent, the map is nil, the value is no integer or the name
\* does not match; a second call on the same XR returns what the first
\* returned, and the XR is after the call what it was before.
C20_DetectPRTotalAndPure ==
  fcall.fn = "DetectPR" =>
    /\ fcall.strategy = "name" =>
         fcall.out = (IF IsPreviewName(fcall.xr.name) THEN NumberOf(fcall.xr.name) ELSE 0)
    /\ fcall.strategy = "label" =>
         fcall.out = IntegerUnder(fcall.xr.labels, DefaultLabelKey)
    /\ fcall.strategy = "annotation" =>
         fcall.out = IntegerUnder(fcall.xr.annotations, DefaultAnnotationKey)
    /\ fcall.again => fcall.before = <<fcall.out>>
    /\ fcall.xrAfter = fcall.xr

\* C20's case: the label detector called twice on an XR whose label is 42,
\* whose annotation is no integer and whose name has another number.
C20_Witness ==
  /\ fcall.fn = "DetectPR" /\ fcall.strategy = "label" /\ fcall.again
  /\ fcall.out = 42
  /\ DefaultAnnotationKey \in DOMAIN fcall.xr.annotations
  /\ ~IsInteger(fcall.xr.annotations[DefaultAnnotationKey])
  /\ IsPreviewName(fcall.xr.name)

\* --------------------------------------------- the transform's claims

\* C14: the preview transform returns a copy that has the name
\* GetBaseName(xr) and cleared UID, resource version, generation, creation
\* timestamp and managed fields, and is the preview XR in everything else
\* (kind, namespace, labels, annotations, spec, status); the preview XR is as
\* before.
C14_TransformKeepsTheRest ==
  fcall.fn = "PreviewTransform" =>
    /\ fcall.out.name = GetBaseName(fcall.strategy, fcall.xr)
    /\ fcall.out.uid = "" /\ fcall.out.resourceVersion = ""
    /\ fcall.out.generation = 0 /\ fcall.out.creationTimestamp = ""
    /\ fcall.out.managedFields = <<>>
    /\ \A f \in {"kind", "namespace", "labels", "annotations", "spec", "status"} :
         fcall.out[f] = fcall.xr[f]
    /\ fcall.xrAfter = fcall.xr

\* A preview with every identity field set, a spec and a status was
\* transformed.
C14_Witness ==
  /\ fcall.fn = "PreviewTransform"
  /\ fcall.xr.uid # "" /\ fcall.xr.resourceVersion # "" /\ fcall.xr.generation # 0
  /\ fcall.xr.creationTimestamp # "" /\ fcall.xr.managedFields # <<>>
  /\ fcall.xr.spec # EmptyMap /\ fcall.xr.status # EmptyMap
  /\ fcall.xr.labels # EmptyMap /\ fcall.xr.namespace # ""
  /\ DetectPR(fcall.strategy, fcall.xr) = 42
  /\ fcall.out # fcall.xr

\* --------------------------------------------- the sanitizer's claims

\* The calls of a sanitizer that has one rule.
OneRuleCall == fcall.fn = "Sanitize" /\ Len(fcall.rules) = 1

\* The rule is a pattern rule on the annotations or the labels.
IsPatternRule(rule) ==
  rule.Pattern # <<>> /\ rule.Path \in {MetadataPath("annotations"), MetadataPath("labels")}

\* The keys of the rule's map that the rule's regex matches; none when the
\* pattern does not compile.
Matching(obj, rule) ==
  IF Compile(rule.Pattern).err THEN {}
  ELSE {k \in MapKeys(obj, rule.Path[2]) : MatchString(Compile(rule.Pattern), KeyText(k))}

\* The leaves of obj outside the map at path, and those of the map's keys
\* other than gone.
Kept(obj, path, gone) ==
  [q \in {r \in DOMAIN obj : r # path /\ ~\E k \in gone : IsPrefix(path \o <<k>>, r)} |->
     obj[q]]

\* The value without the types of its slices and integers.
Untyped(v) ==
  [q \in DOMAIN v |->
     IF v[q][1] \in {"list", "[]string"} THEN <<"slice">> \o Tail(v[q])
     ELSE IF v[q][1] \in {"int", "int64"} THEN <<"integer">> \o Tail(v[q])
     ELSE v[q]]

\* The field at the rule's path is present and has the rule's value.
HasEqualField(obj, rule) ==
  /\ rule.hasEquals
  /\ NestedFieldNoCopy(obj, rule.Path).found
  /\ Untyped(NestedFieldNoCopy(obj, rule.Path).value) = Untyped(rule.Equals)

\* C22: a rule without a pattern removes the field at its path exactly when
\* the field is present and has the rule's Equals value (a []interface{}
\* and a []string with the same elements are the same value, and so are the
\* integer 3 of the rule and the integer 3 of the XR), and records one
\* StrippedField with the rule's path; otherwise the XR is unchanged and
\* nothing is recorded.
C22_EqualsStripsField ==
  (OneRuleCall /\ fcall.rules[1].Pattern = <<>>) =>
    LET rule == fcall.rules[1]
    IN IF HasEqualField(fcall.xr, rule)
       THEN /\ ~NestedFieldNoCopy(fcall.out.SanitizedXR, rule.Path).found
            /\ fcall.out.StrippedFields = <<StrippedField(rule, FALSE)>>
       ELSE /\ fcall.out.SanitizedXR = fcall.xr
            /\ fcall.out.StrippedFields = <<>>

\* C21: a pattern rule on metadata.annotations or metadata.labels deletes
\* the keys its regex matches and nothing else (the other keys, their values
\* and every other field stay), and records one StrippedField, with the
\* rule's path, pattern and reason, when a key matched and none otherwise; a
\* pattern that does not compile removes and records nothing.
C21_PatternStripsMatchingKeys ==
  (OneRuleCall /\ IsPatternRule(fcall.rules[1])) =>
    LET rule == fcall.rules[1]
        gone == Matching(fcall.xr, rule)
        after == fcall.out.SanitizedXR
    IN /\ MapKeys(after, rule.Path[2]) = MapKeys(fcall.xr, rule.Path[2]) \ gone
       /\ Kept(after, rule.Path, {}) = Kept(fcall.xr, rule.Path, gone)
       /\ gone = {} => after = fcall.xr /\ fcall.out.StrippedFields = <<>>
       /\ gone # {} => fcall.out.StrippedFields = <<StrippedField(rule, TRUE)>>

\* C21's case: a label rule whose regex matches two of three labels.
C21_Witness ==
  /\ OneRuleCall /\ IsPatternRule(fcall.rules[1])
  /\ Cardinality(Matching(fcall.xr, fcall.rules[1])) = 2
  /\ Cardinality(MapKeys(fcall.out.SanitizedXR, "labels")) = 1
  /\ Len(fcall.out.StrippedFields) = 1

\* C12: Sanitize is idempotent: the same rules applied to the XR that
\* Sanitize has returned return an XR equal to it.
C12_SanitizeIdempotent ==
  fcall.fn = "SanitizeAgain" => fcall.out.SanitizedXR = fcall.xr

QueueOnlyInit ==
  /\ QueueInit
  /\ cluster = {}
  /\ cfg = NoArgoCD("name")
  /\ fcall = NoCall
  /\ swept = 0
  /\ handled = NoHandled
  /\ comments = <<>>
  /\ calls = EmptyMap
  /\ upserts = EmptyMap
  /\ lease = "self"
  /\ ctx = "live"
  /\ run = NoRun

restVars == <<watcherVars, commentVars, leaderVars, fcall>>

QueueNext ==
  \/ \E p \in PRs : Enqueue(p) /\ UNCHANGED restVars
  \/ \E t \in DOMAIN timers : TimerFire(t) /\ UNCHANGED restVars
  \/ \E t \in DOMAIN timers : ProcessPRTake(t) /\ UNCHANGED restVars
  \/ \E t \in DOMAIN timers : ProcessPRCall(t) /\ UNCHANGED restVars
  \/ \E t \in DOMAIN timers, err \in BOOLEAN : ProcessorReturn(t, err) /\ UNCHANGED restVars
  \/ Shutdown /\ UNCHANGED restVars
  \/ Tick /\ UNCHANGED restVars

SpecQueue == QueueOnlyInit /\ [][QueueNext]_vars

\* The queue under a caller that never calls Shutdown and stops calling
\* Enqueue in time for the last timer to expire; the runtime lets time pass,
\* runs an expired timer's function, and lets a goroutine that waits for q.mu
\* or is about to call the Processor go on.  The Processor may never return.
QueueFairNext ==
  \/ \E p \in PRs : now + Debounce <= MaxTime /\ Enqueue(p) /\ UNCHANGED restVars
  \/ \E t \in DOMAIN timers : TimerFire(t) /\ UNCHANGED restVars
  \/ \E t \in DOMAIN timers : ProcessPRTake(t) /\ UNCHANGED restVars
  \/ \E t \in DOMAIN timers : ProcessPRCall(t) /\ UNCHANGED restVars
  \/ \E t \in DOMAIN timers, err \in BOOLEAN : ProcessorReturn(t, err) /\ UNCHANGED restVars
  \/ Tick /\ UNCHANGED restVars

QueueFairness ==
  /\ WF_vars(Tick /\ UNCHANGED restVars)
  /\ \A t \in 1..MaxEnqueue :
       /\ WF_vars(t \in DOMAIN timers /\ TimerFire(t) /\ UNCHANGED restVars)
       /\ WF_vars(t \in DOMAIN timers /\ ProcessPRTake(t) /\ UNCHANGED restVars)
       /\ WF_vars(t \in DOMAIN timers /\ ProcessPRCall(t) /\ UNCHANGED restVars)

SpecQueueFair == QueueOnlyInit /\ [][QueueFairNext]_vars /\ QueueFairness

\* The queue with its mutexes: the client calls Enqueue and, once, Shutdown,
\* a Processor that runs calls Enqueue for its PR and PendingCount, and each
\* goroutine goes on statement by statement when the mutex it needs is free.
LocksNext ==
  \/ \E p \in PRs : QueueCall(ClientGoroutine, "Enqueue", p) /\ UNCHANGED restVars
  \/ \E t \in DOMAIN timers :
       QueueCall(TimerGoroutine(t), "Enqueue", timers[t].pr) /\ UNCHANGED restVars
  \/ \E t \in DOMAIN timers :
       QueueCall(TimerGoroutine(t), "PendingCount", 0) /\ UNCHANGED restVars
  \/ ~shutLog.called /\ QueueCall(ClientGoroutine, "Shutdown", 0) /\ UNCHANGED restVars
  \/ \E g \in Goroutines : EnqueueSteps(g) /\ UNCHANGED restVars
  \/ \E g \in Goroutines : PendingCountSteps(g) /\ UNCHANGED restVars
  \/ ShutdownSteps(ClientGoroutine) /\ UNCHANGED restVars
  \/ \E t \in DOMAIN timers : TimerFire(t) /\ UNCHANGED restVars
  \/ \E t \in DOMAIN timers : processPRSteps(t) /\ UNCHANGED restVars
  \/ \E t \in DOMAIN timers : AfterUnlock(t) /\ ProcessPRCall(t) /\ UNCHANGED restVars
  \/ \E t \in DOMAIN timers :
       ~InCall(TimerGoroutine(t)) /\ ProcessorReturn(t, FALSE) /\ UNCHANGED restVars
  \/ Tick /\ UNCHANGED restVars

SpecLocks == QueueOnlyInit /\ [][LocksNext]_vars

\* A step of the queue, which is no handler of the watcher.
NoHandler ==
  /\ handled' = NoHandled
  /\ UNCHANGED <<cluster, cfg, fcall, swept, commentVars, leaderVars>>

\* The watcher in dry-run mode (no VCS client) from its start, on a cluster
\* that does not change: the initial reconciliation, then watch events and
\* the queue's callbacks (the first periodic reconciliation is minutes away).
BatchInit ==
  /\ QueueInit
  /\ WatcherInit
  /\ comments = <<>>
  /\ calls = EmptyMap
  /\ upserts = EmptyMap
  /\ lease = "self"
  /\ ctx = "live"
  /\ run = NoRun

BatchNext ==
  \/ InitialReconciliation(TRUE, NoFailure)
  \/ \E env \in Envs(IF swept < Len(Kinds) THEN NextSwept ELSE {}) :
       InitialReconciliation(FALSE, env)
  \/ \E xr \in cluster : WatchEvent(xr)
  \/ \E t \in DOMAIN timers : TimerFire(t) /\ NoHandler
  \/ \E t \in DOMAIN timers : ProcessPRTake(t) /\ NoHandler
  \/ \E t \in DOMAIN timers : ProcessPR(t, TRUE, NoFailure)
  \/ \E t \in DOMAIN timers :
       \E env \in Envs({x \in cluster : w_DetectPR(cfg.strategy, x) = timers[t].pr}) :
         ProcessPR(t, FALSE, env)
  \/ \E t \in DOMAIN timers, err \in BOOLEAN : ProcessorReturn(t, err) /\ NoHandler
  \/ Tick /\ NoHandler

SpecBatch == BatchInit /\ [][BatchNext]_vars

\* The same watcher, with the detector of each strategy, on a cluster with an
\* XR whose annotation is -5.
SignedCluster == {XRUniverse[1], XRUniverse[2], XR_Minus5}

SignedInit ==
  /\ QueueInit
  /\ cluster = SignedCluster
  /\ cfg \in {NoArgoCD(strat) : strat \in Strategies}
  /\ fcall = NoCall
  /\ swept = 0
  /\ handled = NoHandled
  /\ comments = <<>>
  /\ calls = EmptyMap
  /\ upserts = EmptyMap
  /\ lease = "self"
  /\ ctx = "live"
  /\ run = NoRun

SpecSigned == SignedInit /\ [][BatchNext]_vars

\* The bodies and the other comments of the upsert's specification.
Bodies == {<<"plan 1">>, <<"plan 2">>}

OtherTexts == {<<"LGTM">>}

\* The GitHub client alone: one goroutine calls PostComment, one call after
\* the other, while other comments arrive.
CommentInit ==
  /\ QueueInit
  /\ cluster = {}
  /\ cfg = [NoArgoCD("name") EXCEPT !.vcs = TRUE]
  /\ fcall = NoCall
  /\ swept = 0
  /\ handled = NoHandled
  /\ comments = <<>>
  /\ calls = EmptyMap
  /\ upserts = EmptyMap
  /\ lease = "self"
  /\ ctx = "live"
  /\ run = NoRun

otherThanComments == <<queueVars, watcherVars, leaderVars, fcall>>

CommentNext ==
  \/ \E p \in PRs, body \in Bodies :
       PostComment(ClientGoroutine, p, body) /\ UNCHANGED otherThanComments
  \/ \E err \in BOOLEAN : FindExistingComment(ClientGoroutine, err) /\ UNCHANGED otherThanComments
  \/ \E err \in BOOLEAN : WriteComment(ClientGoroutine, err) /\ UNCHANGED otherThanComments
  \/ \E p \in PRs, text \in OtherTexts :
       UserComment(p, text) /\ UNCHANGED otherThanComments

SpecComment == CommentInit /\ [][CommentNext]_vars

\* One replica from its start to its end, with a VCS client, on a cluster
\* that does not change, next to another replica: leader election, the
\* initial and the periodic reconciliation, watch events, the queue's
\* callbacks, the PostComment calls of each goroutine.  A call made with a
\* context that is done fails.  The clock is followed while a timer waits for
\* its deadline.
ProcessCluster == {XRUniverse[1], XRUniverse[3]}

ProcessInit ==
  /\ QueueInit
  /\ cluster = ProcessCluster
  /\ cfg = [NoArgoCD("label") EXCEPT !.vcs = TRUE]
  /\ fcall = NoCall
  /\ swept = 0
  /\ handled = NoHandled
  /\ comments = <<>>
  /\ calls = EmptyMap
  /\ upserts = EmptyMap
  /\ lease = "none"
  /\ ctx = "standby"
  /\ run = NoRun

\* The failures of a handler run of this specification: none, or every diff.
ProcessEnvs(xs) == {NoFailure, [NoFailure EXCEPT !.diffFail = xs]}

\* A step of the leader election: no goroutine of the watcher moves.
Election ==
  /\ handled' = NoHandled
  /\ UNCHANGED <<cluster, cfg, fcall, swept, commentVars, queueVars>>

\* A step of a PostComment call.
Posting ==
  /\ handled' = NoHandled
  /\ UNCHANGED <<cluster, cfg, fcall, swept, queueVars, leaderVars>>

\* A timer waits for its deadline.
Waiting ==
  {t \in DOMAIN timers : timers[t].st = "armed" /\ now < timers[t].deadline} # {}

ProcessNext ==
  \/ StartLeading /\ Election
  \/ \E released \in BOOLEAN : CtxCancel(released) /\ Election
  \/ RunReturn /\ Election
  \/ Exit /\ Election
  \/ LeaseExpire /\ Election
  \/ PeerAcquire /\ Election
  \/ PeerRelease /\ Election
  \/ Running /\ InitialReconciliation(TRUE, NoFailure)
  \/ \E env \in ProcessEnvs(NextSwept) :
       ctx = "live" /\ InitialReconciliation(FALSE, env)
  \/ Running /\ PeriodicReconciliation(TRUE, NoFailure)
  \/ \E env \in ProcessEnvs(NextSwept) :
       ctx = "live" /\ PeriodicReconciliation(FALSE, env)
  \/ \E xr \in cluster : Running /\ WatchEvent(xr)
  \/ \E xr \in cluster : DeleteXR(xr)
  \/ \E t \in DOMAIN timers : Running /\ TimerFire(t) /\ NoHandler
  \/ \E t \in DOMAIN timers : Running /\ ProcessPRTake(t) /\ NoHandler
  \/ \E t \in DOMAIN timers : Running /\ ProcessPR(t, TRUE, NoFailure)
  \/ \E t \in DOMAIN timers :
       \E env \in ProcessEnvs({x \in cluster : w_DetectPR(cfg.strategy, x) = timers[t].pr}) :
         ctx = "live" /\ ProcessPR(t, FALSE, env)
  \/ \E t \in DOMAIN timers, err \in BOOLEAN :
       Running /\ ~Busy(TimerGoroutine(t)) /\ ProcessorReturn(t, err) /\ NoHandler
  \/ \E c \in DOMAIN calls, err \in BOOLEAN :
       Running /\ (ctx # "live" => err) /\ FindExistingComment(c, err) /\ Posting
  \/ \E c \in DOMAIN calls, err \in BOOLEAN :
       Running /\ (ctx # "live" => err) /\ WriteComment(c, err) /\ Posting
  \/ Waiting /\ Tick /\ NoHandler

SpecProcess == ProcessInit /\ [][ProcessNext]_vars

\* ------------------------------------------------ the comparison's claims

\* What the claim keys a resource by.
FiveFields(r) == <<r.group, r.version, r.kind, r.namespace, r.name>>

FiveFieldsOf(rs) == {FiveFields(r) : r \in rs}

\* C24: compareResources yields three pairwise disjoint buckets that cover
\* every (group, version, kind, namespace, name) of both applications:
\* additions are the PR's without production's, modifications those of both,
\* deletions production's without the PR's.
C24_ThreeDisjointBuckets ==
  fcall.fn = "compareResources" =>
    LET pr == FiveFieldsOf(fcall.pr)
        prod == FiveFieldsOf(fcall.prod)
        add == FiveFieldsOf(fcall.out.Additions)
        mod == FiveFieldsOf(fcall.out.Modifications)
        del == FiveFieldsOf(fcall.out.Deletions)
    IN /\ add = pr \ prod
       /\ mod = pr \cap prod
       /\ del = prod \ pr
       /\ add \cap mod = {} /\ add \cap del = {} /\ mod \cap del = {}
       /\ add \cup mod \cup del = pr \cup prod
       /\ Cardinality(fcall.out.Additions) = Cardinality(add)
       /\ Cardinality(fcall.out.Modifications) = Cardinality(mod)
       /\ Cardinality(fcall.out.Deletions) = Cardinality(del)

\* compareResources has sorted resources into each of the three buckets, two
\* of them differing in the namespace only.
C24_Witness ==
  /\ fcall.fn = "compareResources"
  /\ fcall.out.Additions # {} /\ fcall.out.Modifications # {} /\ fcall.out.Deletions # {}
  /\ \E a \in fcall.out.Additions, d \in fcall.out.Deletions :
       a.namespace # d.namespace /\ a.kind = d.kind /\ a.name = d.name

\* ------------------------------------------------ the calculator's claims

\* A CalculateDiff call that has returned a DiffResult.
Calculated == fcall.fn = "CalculateDiff" /\ fcall.out.err = ""

\* The lines of a text that are not blank, trimmed.
TrimmedLines(text) ==
  LET lines == Split(text, "\n")
  IN {i \in DOMAIN lines : TrimSpace(lines[i]) # <<>>}

Beginning(text, mark) ==
  LET lines == Split(text, "\n")
  IN Cardinality({i \in TrimmedLines(text) : Head(TrimSpace(lines[i])) = mark})

\* C25: hasChanges is true exactly when the engine's output is not empty
\* after trimming; the summary is "No changes detected for kind/name" without
\* changes and else "Changes detected for kind/name: +A -D lines", A the
\* number of non-blank lines that begin with + after trimming, D with -.
C25_SummaryCountsLines ==
  Calculated =>
    LET text == fcall.env.text
        res == fcall.out.result
    IN /\ res.HasChanges <=> (TrimSpace(text) # <<>>)
       /\ res.RawDiff = text
       /\ ~res.HasChanges =>
            res.Summary = <<"No changes detected for ", GetKind(fcall.xr), "/", GetName(fcall.xr)>>
       /\ res.HasChanges =>
            res.Summary = <<"Changes detected for ", GetKind(fcall.xr), "/", GetName(fcall.xr),
                            ": +", ToString(Beginning(text, "+")),
                            " -", ToString(Beginning(text, "-")), " lines">>

\* A diff of two lines, an addition after blanks and a deletion, was summed up.
C25_Witness ==
  /\ Calculated
  /\ fcall.env.text = <<" ", "+", "\n", "-">>
  /\ fcall.out.result.Summary[5] = ": +" /\ fcall.out.result.Summary[6] = "1"
  /\ fcall.out.result.Summary[8] = "1"

\* What the configured sanitizer of the call makes of the XR of the call.
Sanitized == Sanitize(fcall.sanitizer.rules, fcall.xr).result

\* C28: in CalculateDiff the sanitizer runs before the diff engine: with a
\* sanitizer the engine is given the sanitized copy, never the XR as it came,
\* without one the input as it is; the caller's XR is not changed.
C28_SanitizedBeforeDiff ==
  fcall.fn = "CalculateDiff" =>
    /\ fcall.out.xrAfter = fcall.xr
    /\ (~fcall.env.initErr /\ fcall.sanitizer.configured) =>
         /\ fcall.out.engineGot = <<Sanitized.SanitizedXR>>
         /\ Sanitized.StrippedFields # <<>> => fcall.out.engineGot # <<fcall.xr>>
         /\ fcall.out.err = "" => /\ fcall.out.result.StrippedFields = Sanitized.StrippedFields
                                  /\ fcall.out.result.XR = fcall.xr
    /\ (~fcall.env.initErr /\ ~fcall.sanitizer.configured) =>
         /\ fcall.out.engineGot = <<fcall.xr>>
         /\ fcall.out.err = "" => fcall.out.result.StrippedFields = <<>>

\* CalculateDiff with a sanitizer that strips a field has returned a result.
C28_Witness ==
  /\ Calculated
  /\ fcall.sanitizer.configured
  /\ fcall.out.result.StrippedFields # <<>>
  /\ fcall.out.engineGot # <<fcall.xr>>
  /\ fcall.out.result.XR = fcall.xr

\* ------------------------------------------- the configuration's claims

\* A rule without its reason: what the README's table tells of a rule.
Exclusion(rule) ==
  [Path |-> rule.Path, hasEquals |-> rule.hasEquals, Equals |-> rule.Equals,
   Pattern |-> rule.Pattern]

Exclusions(rules) == [i \in DOMAIN rules |-> Exclusion(rules[i])]

\* C23: GetAllStripRules returns the three default rules (managementPolicies
\* equal to ["Observe"], the argocd.argoproj.io annotations, the label
\* crossplane.io/composite) followed by the user's rules when stripDefaults
\* is true, and exactly the user's rules when it is false.
C23_DefaultsThenUserRules ==
  fcall.fn = "GetAllStripRules" =>
    IF fcall.c.StripDefaults
    THEN Exclusions(fcall.out) = DefaultExclusions \o Exclusions(fcall.c.StripRules)
    ELSE fcall.out = fcall.c.StripRules

\* --------------------------------------------------------- run's claims

\* C26: when the first discovery after the election fails, the process does
\* not stay alive as an idle leader: it ends with exit code 1.
C26_FirstDiscoveryFailureIsFatal ==
  run.phase = "failed" => (ctx = "exited" /\ run.exit = "1")

\* C27: a periodic reconciliation sweeps the kinds that discovery finds at
\* that time: a kind whose XRD is served since the start is listed too.
C27_ResyncDiscoversAgain ==
  run.sweep.periodic => run.sweep.listed = run.sweep.served

\* The kinds whose watch loop is at the position pos.
WatchAt(pos) == {k \in DOMAIN run.watch : run.watch[k] = pos}

\* A watch loop has skipped an event in the step.
Skipped ==
  handled'.handler = "watchGVR"
    /\ handled'.returned \in {"watch error event", "unexpected object type"}

\* C29: while the context is live no watch loop of a discovered kind has
\* ended; a loop that sleeps after a failed Watch call or a closed channel
\* comes back to its top and calls Watch again; an event of type Error and an
\* object of an unexpected type enqueue nothing and leave the stream open;
\* once the context is cancelled every watch loop ends.
C29_WatchLoopsKeepRunning ==
  /\ [](ctx = "live" => (WatchAt("done") = {} /\ DOMAIN run.watch = SeqSet(run.gvrs)))
  /\ \A kind \in SeqSet(Kinds) :
       /\ (kind \in WatchAt("sleep")) ~> (kind \in WatchAt("loop") \/ ctx = "exited")
       /\ (kind \in WatchAt("loop") /\ ctx = "live")
            ~> (kind \in WatchAt("open") \cup WatchAt("sleep") \/ ctx # "live")
  /\ [][Skipped => (UNCHANGED queueVars /\ run'.watch = run.watch
                      /\ WatchAt("open") # {})]_vars
  /\ (ctx = "cancelled") ~> (ctx = "exited" \/ DOMAIN run.watch = WatchAt("done"))

\* The context is live after a periodic reconciliation, one watch loop has its
\* watch open and has skipped an object of an unexpected type, the other
\* sleeps after a failed Watch call or a closed channel.
C29_Witness ==
  /\ ctx = "live"
  /\ WatchAt("open") # {} /\ WatchAt("sleep") # {}
  /\ handled.returned = "unexpected object type"
  /\ run.sweeps = 2

\* -------------------------------------------------- the sweep's claims

\* The kind the next reconcileExistingXRs of a sweep lists.
SweptKind == Kinds[(swept % Len(Kinds)) + 1]

\* The PR numbers of the XRs of a kind.
PRsOfKind(kind) ==
  {w_DetectPR(cfg.strategy, x) : x \in {y \in cluster : y.kind = kind}} \ {0}

BatchPRs(bs) == {bs[i].prNumber : i \in DOMAIN bs}

\* The goroutines of the sweeps that are in a PostComment call.
Sweeping == {c \in {RunGoroutine, PeriodicGoroutine} : Busy(c)}

\* C30: a sweep goes on to the next kind whether the list of a kind failed or
\* not, so the initial sweep ends and the watches start; a list that
\* succeeded has every PR of the kind handled as a batch and its comment
\* handed to PostComment; a PostComment call that ends, with an error too,
\* leaves the comments of the PRs after it to be posted.
C30_SweepGoesOn ==
  /\ [][handled'.handler = "reconcileExistingXRs" =>
          /\ swept' = swept + 1
          /\ handled'.returned = "nil" =>
               /\ BatchPRs(handled'.batches) = PRsOfKind(SweptKind)
               /\ Len(handled'.batches) = Cardinality(PRsOfKind(SweptKind))
               /\ BatchPosts(handled'.batches) # <<>> =>
                    \E c \in DOMAIN calls' : calls'[c] = NewCall(BatchPosts(handled'.batches))]_vars
  /\ [][\A c \in Sweeping :
          (calls'[c] # calls[c] /\ calls'[c].phase # "write") =>
            /\ calls'[c].posts = Tail(calls[c].posts)
            /\ calls'[c].phase = IF Len(calls[c].posts) > 1 THEN "find" ELSE "done"]_vars
  /\ [](handled.handler = "handleXREvent" => swept >= Len(Kinds))

\* An event of a watch is handled after an initial sweep in which a PR was
\* left without its comment (the list of its kind failed, or PostComment
\* did) and another PR got its comment.
C30_Witness ==
  /\ handled.handler = "handleXREvent"
  /\ swept = Len(Kinds)
  /\ \E p \in PRsOfKind("XCache") : p \notin DOMAIN upserts
  /\ \E p \in PRsOfKind("XCache") : p \in DOMAIN upserts
  /\ Sweeping = {}

\* The detectors alone, called as their tests call them: on one XR, by the
\* detector of each strategy, any number of times.
DetectInit ==
  /\ QueueInit
  /\ cluster = {}
  /\ cfg = NoArgoCD("name")
  /\ swept = 0
  /\ handled = NoHandled
  /\ comments = <<>>
  /\ calls = EmptyMap
  /\ upserts = EmptyMap
  /\ lease = "self"
  /\ ctx = "live"
  /\ run = NoRun
  /\ fcall \in {[fn |-> "input", xr |-> x] : x \in DetectorInputs}

otherThanCall == <<queueVars, watcherVars, commentVars, leaderVars>>

DetectNext ==
  \/ \E strat \in Strategies : CallDetectPR(strat) /\ UNCHANGED otherThanCall
  \/ \E strat \in Strategies : CallGetBaseName(strat) /\ UNCHANGED otherThanCall

SpecDetect == DetectInit /\ [][DetectNext]_vars

\* The sanitizer alone, called as its tests call it: a rule list, an XR.
SanitizeInit ==
  /\ QueueInit
  /\ cluster = {}
  /\ cfg = NoArgoCD("name")
  /\ swept = 0
  /\ handled = NoHandled
  /\ comments = <<>>
  /\ calls = EmptyMap
  /\ upserts = EmptyMap
  /\ lease = "self"
  /\ ctx = "live"
  /\ run = NoRun
  /\ fcall \in {[fn |-> "input", rules |-> rs, xr |-> x] :
                  rs \in RuleLists(MaxRules), x \in SanitizerInputs}

SanitizeNext ==
  \/ CallSanitize /\ UNCHANGED otherThanCall
  \/ CallSanitizeAgain /\ UNCHANGED otherThanCall

SpecSanitize == SanitizeInit /\ [][SanitizeNext]_vars

\* The transform alone, on one XR, with the detector of each strategy.
TransformInit ==
  /\ QueueInit
  /\ cluster = {}
  /\ cfg = NoArgoCD("name")
  /\ swept = 0
  /\ handled = NoHandled
  /\ comments = <<>>
  /\ calls = EmptyMap
  /\ upserts = EmptyMap
  /\ lease = "self"
  /\ ctx = "live"
  /\ run = NoRun
  /\ fcall \in {[fn |-> "input", xr |-> x] : x \in TransformInputs}

TransformNext ==
  \E strat \in Strategies : CallPreviewTransform(strat) /\ UNCHANGED otherThanCall

SpecTransform == TransformInit /\ [][TransformNext]_vars

\* The configuration alone: stripDefaults and the user's rules of a file.
ConfigInit ==
  /\ QueueInit
  /\ cluster = {}
  /\ cfg = NoArgoCD("name")
  /\ swept = 0
  /\ handled = NoHandled
  /\ comments = <<>>
  /\ calls = EmptyMap
  /\ upserts = EmptyMap
  /\ lease = "self"
  /\ ctx = "live"
  /\ run = NoRun
  /\ fcall \in {[fn |-> "input", c |-> [StripDefaults |-> d, StripRules |-> rs]] :
                  d \in BOOLEAN, rs \in RuleLists(MaxRules)}

ConfigNext == CallGetAllStripRules /\ UNCHANGED otherThanCall

SpecConfig == ConfigInit /\ [][ConfigNext]_vars

\* The comparison alone, as its test calls it: two sets of resources.
CompareInit ==
  /\ QueueInit
  /\ cluster = {}
  /\ cfg = NoArgoCD("name")
  /\ swept = 0
  /\ handled = NoHandled
  /\ comments = <<>>
  /\ calls = EmptyMap
  /\ upserts = EmptyMap
  /\ lease = "self"
  /\ ctx = "live"
  /\ run = NoRun
  /\ fcall \in {[fn |-> "input", pr |-> a, prod |-> b] :
                  a \in SUBSET ComparedResources, b \in SUBSET ComparedResources}

CompareNext == CallCompareResources /\ UNCHANGED otherThanCall

SpecCompare == CompareInit /\ [][CompareNext]_vars

\* The calculator without a sanitizer, on every output of the diff engine.
SummaryEnvs ==
  {[initErr |-> FALSE, text |-> t, err |-> e, fetchErr |-> FALSE] :
     t \in Texts(MaxText), e \in BOOLEAN}

SummaryInit ==
  /\ QueueInit
  /\ cluster = {}
  /\ cfg = NoArgoCD("name")
  /\ swept = 0
  /\ handled = NoHandled
  /\ comments = <<>>
  /\ calls = EmptyMap
  /\ upserts = EmptyMap
  /\ lease = "self"
  /\ ctx = "live"
  /\ run = NoRun
  /\ fcall \in {[fn |-> "input", sanitizer |-> NoSanitizer, xr |-> x, env |-> e] :
                  x \in {(<<"kind">> :> Str("XDB")) @@ (MetadataPath("name") :> Str("db")),
                         (<<"kind">> :> Str("XDB"))},
                  e \in SummaryEnvs}

SummaryNext == CallCalculateDiff /\ UNCHANGED otherThanCall

SpecSummary == SummaryInit /\ [][SummaryNext]_vars

\* The calculator with and without a sanitizer, the engine and the fetching of
\* the managed resources failing or not.
CalculateEnvs ==
  {[initErr |-> i, text |-> <<"+", "x">>, err |-> e, fetchErr |-> f] :
     i \in BOOLEAN, e \in BOOLEAN, f \in BOOLEAN}

CalculateInit ==
  /\ QueueInit
  /\ cluster = {}
  /\ cfg = NoArgoCD("name")
  /\ swept = 0
  /\ handled = NoHandled
  /\ comments = <<>>
  /\ calls = EmptyMap
  /\ upserts = EmptyMap
  /\ lease = "self"
  /\ ctx = "live"
  /\ run = NoRun
  /\ fcall \in {[fn |-> "input", sanitizer |-> sn, xr |-> x, env |-> e] :
                  sn \in {NoSanitizer} \cup {NewSanitizer(rs) : rs \in RuleLists(MaxRules)},
                  x \in CalculatorInputs, e \in CalculateEnvs}

CalculateNext == CallCalculateDiff /\ UNCHANGED otherThanCall

SpecCalculate == CalculateInit /\ [][CalculateNext]_vars

\* run and its watch loops, from the election on, in dry-run mode (the
\* batches of a sweep post nothing); the timers of the work queue do not
\* fire here.
RunCluster == {XRUniverse[1], XRUniverse[2], XRUniverse[6]}

RunInit ==
  /\ QueueInit
  /\ cluster = RunCluster
  /\ cfg = NoArgoCD("name")
  /\ swept = 0
  /\ handled = NoHandled
  /\ comments = <<>>
  /\ calls = EmptyMap
  /\ upserts = EmptyMap
  /\ lease = "none"
  /\ ctx = "standby"
  /\ fcall = NoCall
  /\ run \in {[NoRun EXCEPT !.served = sv, !.periodic = p] :
                sv \in SUBSET SeqSet(Kinds), p \in BOOLEAN}

\* A step of the election, which no handler of the watcher takes.
Elected(step) ==
  /\ step
  /\ handled' = NoHandled
  /\ UNCHANGED <<cluster, cfg, swept, fcall, queueVars, commentVars>>

RunNext ==
  \/ Elected(StartLeading)
  \/ \E released \in BOOLEAN : Elected(CtxCancel(released))
  \/ \E kind \in SeqSet(Kinds) : XRDServed(kind)
  \/ \E discoverErr \in BOOLEAN, listFails \in SUBSET SeqSet(Kinds) :
       run_Start(discoverErr, listFails)
  \/ \E listFails \in SUBSET SeqSet(Kinds) : run_Periodic(listFails)
  \/ run_PeriodicDone
  \/ run_Done
  \/ main_Return
  \/ \E kind \in SeqSet(Kinds), err \in BOOLEAN : watchGVR_Watch(kind, err)
  \/ \E kind \in SeqSet(Kinds) : watchGVR_Closed(kind)
  \/ \E kind \in SeqSet(Kinds) : watchGVR_Retry(kind)
  \/ \E kind \in SeqSet(Kinds), what \in {"watch error event", "unexpected object type"} :
       watchGVR_Skip(kind, what)
  \/ \E kind \in SeqSet(Kinds), xr \in cluster : watchGVR_Event(kind, xr)
  \/ \E kind \in SeqSet(Kinds) : watchGVR_CtxDone(kind)

SpecRun == RunInit /\ [][RunNext]_vars

\* The scheduler lets every goroutine that can take a step take one: a sleep
\* ends, a loop at its top calls Watch or returns, a select with ctx.Done
\* ready takes it in the end.
RunFairness ==
  \A kind \in SeqSet(Kinds) :
    /\ WF_vars(watchGVR_Retry(kind))
    /\ WF_vars(\E err \in BOOLEAN : watchGVR_Watch(kind, err))
    /\ WF_vars(watchGVR_CtxDone(kind))

SpecRunFair == RunInit /\ [][RunNext]_vars /\ RunFairness

\* The watcher of SpecBatch without ArgoCD on clusters in which resources of
\* different kinds share a name: the production XDB a next to a production
\* XCache a, or next to a preview XCache a of the PR.
SameNameClusters ==
  { {XRUniverse[1], XRUniverse[4], XRUniverse[2], XR_CacheA},
    {XRUniverse[1], XRUniverse[2], XR_PreviewCacheA} }

SameNameInit ==
  /\ QueueInit
  /\ cluster \in SameNameClusters
  /\ cfg \in {NoArgoCD(strat) : strat \in Strategies}
  /\ fcall = NoCall
  /\ swept = 0
  /\ handled = NoHandled
  /\ comments = <<>>
  /\ calls = EmptyMap
  /\ upserts = EmptyMap
  /\ lease = "self"
  /\ ctx = "live"
  /\ run = NoRun

SpecSameName == SameNameInit /\ [][BatchNext]_vars

\* The sweeps of a leader with a VCS client, and the watches after them: two
\* kinds, one with the previews of two pull requests.
SweepCluster == {XRUniverse[1], XRUniverse[4], XRUniverse[6]}

SweepInit ==
  /\ QueueInit
  /\ cluster = SweepCluster
  /\ cfg = [NoArgoCD("label") EXCEPT !.vcs = TRUE]
  /\ fcall = NoCall
  /\ swept = 0
  /\ handled = NoHandled
  /\ comments = <<>>
  /\ calls = EmptyMap
  /\ upserts = EmptyMap
  /\ lease = "self"
  /\ ctx = "live"
  /\ run = NoRun

SweepNext ==
  \/ InitialReconciliation(TRUE, NoFailure)
  \/ \E env \in ProcessEnvs(NextSwept) : InitialReconciliation(FALSE, env)
  \/ PeriodicReconciliation(TRUE, NoFailure)
  \/ \E env \in ProcessEnvs(NextSwept) : PeriodicReconciliation(FALSE, env)
  \/ \E xr \in cluster : WatchEvent(xr)
  \/ \E c \in DOMAIN calls, err \in BOOLEAN : FindExistingComment(c, err) /\ Posting
  \/ \E c \in DOMAIN calls, err \in BOOLEAN : WriteComment(c, err) /\ Posting

SpecSweep == SweepInit /\ [][SweepNext]_vars

=============================================================================
